---- MODULE Spec2Model ----
(***************************************************************************)
(* Model of the sequence-selection and subject-reconciliation logic of     *)
(* hippocampal-normative-models:                                           *)
(*   scripts/convert_ppmi_dicom_to_nifti.py   (Sequence Selector)          *)
(*   scripts/match_subjects_with_volumes.py   (per-dataset join)           *)
(*   scripts/combine_volumes_with_subjects.py (join, union, QC gate)       *)
(*   scripts/organize_ct_synthseg.py          (copy into the derivatives)  *)
(*                                                                         *)
(* Python strings are sequences of one-character strings, so that          *)
(* substring search, prefix tests, slicing and case folding are computed   *)
(* character by character.  Python None is the value None; a pandas NaN is *)
(* the value NaN, which fails every comparison.                            *)
(***************************************************************************)
EXTENDS Integers, Sequences, FiniteSets, TLC

VARIABLES
    \* --- string functions applied to one argument -----------------------
    arg,            \* the string handed to the function
    fn,             \* name of the function that was called, "none" before
    ret,            \* <<value returned>>, <<>> before the call
    ret2,           \* <<value returned by applying the function to ret[1]>>
    \* --- convert_ppmi_dicom_to_nifti.py, one subject --------------------
    t1_sequences,   \* list built by find_t1_sequences
    selected,       \* list returned by select_best_sequences
    pc,             \* "discover" | "selected"
    \* --- combine_volumes_with_subjects.py, QC gate ----------------------
    combined_df,    \* the unioned table
    filtered_df,    \* the table being filtered
    qc_todo,        \* the items of qc_thresholds the loop has still to visit
    removed_counts, \* the "removed n subjects" lines the loop has printed
    \* --- per-dataset join of the two reconciler scripts -----------------
    script,         \* "match" | "combine": which script runs
    subjects_df,    \* the subject table (subjects_df / selected_df)
    volumes_dfs,    \* dataset -> measurement table, for the files that exist
    todo,           \* datasets the loop has still to visit
    matched_data,   \* list of per-dataset joined tables
    joined_df,      \* combined_df after pd.concat, <<>> before
    jpc,            \* "loop" | "done" | "exit"
    \* --- combine_volumes_with_subjects.py, the rest of the script -------
    selected_cols,  \* the columns of the subject table
    report,         \* what the per-dataset loop printed, one entry per dataset
    output_file,    \* <<>> while not written, <<the rows written>> after
    dataset_distribution, \* the value counts printed at line 91, <<>> if none
    \* --- convert_ppmi_dicom_to_nifti.py, main over all subjects ----------
    subjects_to_process, \* the PATNOs the loop has still to visit
    main_subject_id, \* subject_id of the current iteration of main, None before
    subject_dirs,   \* the timestamp directories find_t1_sequences visited for it
    to_convert,     \* the entries of selected the inner loop has still to visit
    converted,      \* the calls of convert_to_nifti made for the current subject
    stats,          \* the counters of main
    output_root,    \* the files under OUTPUT_ROOT, as <<directory, file name>>
    mpc,            \* "loop" | "convert" | "finished"
    \* --- organize_ct_synthseg.py ----------------------------------------
    dry_run,        \* the argument of main
    source_fs,      \* the source directories that exist and the names in them
    target_fs,      \* TARGET_DIR: whether it exists, its directories and files
    subject_ids,    \* the subject ids the loop of main has still to visit
    successes,      \* list of the subjects copied
    failures,       \* list of the failure messages
    opc,            \* "start" | "loop" | "returned" | "raise"
    exit_code,      \* the value main returned, None before
    \* --- convert_ppmi_dicom_to_nifti.py, one timestamp directory ---------
    timestamp_dir   \* a timestamp directory on disk: the names of its series
                    \* directory and of itself, its children, and whether the
                    \* loop of find_t1_sequences has visited it; <<>> if none

TextVars  == <<arg, fn, ret, ret2>>
SelVars   == <<t1_sequences, selected, pc>>
QCVars    == <<combined_df, filtered_df, qc_todo, removed_counts>>
JoinVars  == <<script, subjects_df, volumes_dfs, todo, matched_data, joined_df, jpc>>
CombineVars == <<selected_cols, report, output_file, dataset_distribution>>
MainVars  == <<subjects_to_process, main_subject_id, subject_dirs, to_convert, converted,
               stats, output_root, mpc>>
OrgVars   == <<dry_run, source_fs, target_fs, subject_ids, successes, failures, opc,
               exit_code>>
LayoutVars == <<timestamp_dir>>
vars      == <<TextVars, SelVars, QCVars, JoinVars, CombineVars, MainVars, OrgVars,
               LayoutVars>>

\* Python None (a run index that is not set).
None == -1
\* pandas NaN (a missing cell).
NaN == -1

-----------------------------------------------------------------------------
(* Characters and strings *)

UpperChars == <<"A","B","C","D","E","F","G","H","I","J","K","L","M","N","O","P","Q","R","S","T","U","V","W","X","Y","Z">>
LowerChars == <<"a","b","c","d","e","f","g","h","i","j","k","l","m","n","o","p","q","r","s","t","u","v","w","x","y","z">>
Digits == {"0","1","2","3","4","5","6","7","8","9"}

\* str.lower() on one character.
UpperToLower ==
    [c \in { UpperChars[i] : i \in 1..26 } |->
        LowerChars[CHOOSE i \in 1..26 : UpperChars[i] = c]]

LowerChar(c) == IF c \in DOMAIN UpperToLower THEN UpperToLower[c] ELSE c

\* str.lower()
lower(s) == [i \in 1..Len(s) |-> LowerChar(s[i])]

\* s.startswith(p)
startswith(s, p) == Len(s) >= Len(p) /\ SubSeq(s, 1, Len(p)) = p

\* p occurs in s at position i (1-based)
OccursAt(p, s, i) == i + Len(p) - 1 <= Len(s) /\ SubSeq(s, i, i + Len(p) - 1) = p

\* Python's  p in s
contains(s, p) == \E i \in 1..(Len(s) + 1) : OccursAt(p, s, i)

\* s[n:]
SliceFrom(s, n) == SubSeq(s, n + 1, Len(s))

\* s[:n]
SliceTo(s, n) == SubSeq(s, 1, IF Len(s) < n THEN Len(s) ELSE n)

\* s.replace(c, '') for a one-character c
RECURSIVE remove_char(_, _)
remove_char(s, c) ==
    IF s = <<>> THEN <<>>
    ELSE IF Head(s) = c THEN remove_char(Tail(s), c)
    ELSE <<Head(s)>> \o remove_char(Tail(s), c)

\* re.match(r".*LIT.*", s, flags): '.' matches every character but a newline,
\* the match is anchored at the start of s and need not reach its end.  With
\* re.IGNORECASE letters are compared without regard to case.
re_match_dotstar(lit, s, ignorecase) ==
    LET l == IF ignorecase THEN lower(lit) ELSE lit
        t == IF ignorecase THEN lower(s) ELSE s
    IN \E i \in 1..(Len(s) + 1) :
          /\ OccursAt(l, t, i)
          /\ \A j \in 1..(i - 1) : s[j] # "\n"

-----------------------------------------------------------------------------
(* convert_ppmi_dicom_to_nifti.py: tables *)

\* T1_PATTERNS: each entry X stands for the pattern r".*X.*"
T1_PATTERNS == <<
    <<"T","1">>,
    <<"M","P","R","A","G","E">>,
    <<"F","S","P","G","R">>,
    <<"S","P","G","R">> >>

\* EXCLUDE_PATTERNS: each entry X stands for the pattern r".*X.*"
EXCLUDE_PATTERNS == <<
    <<"l","o","c","a","l","i","z","e","r">>,
    <<"s","c","o","u","t">>,
    <<"c","a","l","i","b","r","a","t","i","o","n">> >>

SEQUENCE_PRIORITY == <<
    <<"3","D","_","T","1","-","w","e","i","g","h","t","e","d">>,
    <<"3","D","_","T","1","_","w","e","i","g","h","t","e","d">>,
    <<"M","P","R","A","G","E","_","G","R","A","P","P","A">>,
    <<"M","P","R","A","G","E">>,
    <<"S","A","G","_","3","D","_","M","P","R","A","G","E">>,
    <<"S","A","G","_","3","D","_","T","1","_","M","P","R","A","G","E">>,
    <<"3","D","_","T","1","_","M","P","R","A","G","E">>,
    <<"S","A","G","_","3","D","_","F","S","P","G","R">>,
    <<"S","A","G","_","3","D","_","T","1","_","F","S","P","G","R">>,
    <<"F","S","P","G","R">> >>

-----------------------------------------------------------------------------
(* convert_ppmi_dicom_to_nifti.py: pure functions *)

\* A classifier that tests the inclusion patterns before the exclusion ones.
is_t1_sequence_inclusion_first(sequence_name) ==
    LET sequence_lower == lower(sequence_name) IN
    IF \E k \in 1..Len(T1_PATTERNS) : re_match_dotstar(T1_PATTERNS[k], sequence_lower, TRUE)
    THEN TRUE
    ELSE FALSE

is_t1_sequence(sequence_name) ==
    LET sequence_lower == lower(sequence_name) IN
    IF \E k \in 1..Len(EXCLUDE_PATTERNS) :
           re_match_dotstar(EXCLUDE_PATTERNS[k], sequence_lower, FALSE)
    THEN FALSE
    ELSE IF \E k \in 1..Len(T1_PATTERNS) :
                re_match_dotstar(T1_PATTERNS[k], sequence_lower, TRUE)
    THEN TRUE
    ELSE FALSE

\* The loop of get_sequence_priority from 0-based index idx on, over the
\* lower-cased name.
RECURSIVE priority_from(_, _)
priority_from(name_lower, idx) ==
    IF idx >= Len(SEQUENCE_PRIORITY) THEN Len(SEQUENCE_PRIORITY)
    ELSE IF contains(name_lower, lower(SEQUENCE_PRIORITY[idx + 1])) THEN idx
    ELSE priority_from(name_lower, idx + 1)

\* A ranker that keeps the last matching entry instead of returning at the first.
RECURSIVE priority_last_from(_, _, _)
priority_last_from(name_lower, idx, found) ==
    IF idx >= Len(SEQUENCE_PRIORITY) THEN found
    ELSE priority_last_from(name_lower, idx + 1,
            IF contains(name_lower, lower(SEQUENCE_PRIORITY[idx + 1]))
            THEN idx ELSE found)

get_sequence_priority_last_match(sequence_name) ==
    priority_last_from(lower(sequence_name), 0, Len(SEQUENCE_PRIORITY))

get_sequence_priority(sequence_name) == priority_from(lower(sequence_name), 0)

\* re.match(r'(\d{4})-(\d{2})-(\d{2})', s): the three groups, or <<>> for no match.
re_match_date(s) ==
    IF /\ Len(s) >= 10
       /\ \A i \in {1, 2, 3, 4, 6, 7, 9, 10} : s[i] \in Digits
       /\ s[5] = "-" /\ s[8] = "-"
    THEN << SubSeq(s, 1, 4), SubSeq(s, 6, 7), SubSeq(s, 9, 10) >>
    ELSE <<>>

\* A date deriver that writes the groups as day, month, year.
extract_session_date_swapped(timestamp_str) ==
    LET match == re_match_date(timestamp_str) IN
    IF match # <<>> THEN match[3] \o match[2] \o match[1]
    ELSE SliceTo(remove_char(remove_char(remove_char(timestamp_str, "-"), "_"), "."), 8)

extract_session_date(timestamp_str) ==
    LET match == re_match_date(timestamp_str) IN
    IF match # <<>> THEN match[1] \o match[2] \o match[3]
    ELSE SliceTo(remove_char(remove_char(remove_char(timestamp_str, "-"), "_"), "."), 8)

-----------------------------------------------------------------------------
(* match_subjects_with_volumes.py: normalize_subject_id *)

SubPrefix == <<"s","u","b","-">>

normalize_subject_id(sid) ==
    IF startswith(sid, SubPrefix) THEN SliceFrom(sid, 4) ELSE sid

-----------------------------------------------------------------------------
(* convert_ppmi_dicom_to_nifti.py: select_best_sequences *)

\* The distinct session keys of a candidate list, in order of first appearance
\* (the insertion order of the dict `sessions`).
RECURSIVE session_keys(_)
session_keys(sequences) ==
    IF sequences = <<>> THEN <<>>
    ELSE LET rest == session_keys(SubSeq(sequences, 1, Len(sequences) - 1))
             key == sequences[Len(sequences)].session_date
         IN IF \E i \in 1..Len(rest) : rest[i] = key THEN rest ELSE Append(rest, key)

\* sessions[session_key]: the candidates of one session, in input order.
RECURSIVE session_group(_, _)
session_group(sequences, session_key) ==
    IF sequences = <<>> THEN <<>>
    ELSE IF Head(sequences).session_date = session_key
         THEN <<Head(sequences)>> \o session_group(Tail(sequences), session_key)
         ELSE session_group(Tail(sequences), session_key)

\* Insert s into a list sorted by priority, after every entry of equal priority.
RECURSIVE insert_by_priority(_, _)
insert_by_priority(sorted, s) ==
    IF sorted = <<>> THEN <<s>>
    ELSE IF s.priority < Head(sorted).priority THEN <<s>> \o sorted
    ELSE <<Head(sorted)>> \o insert_by_priority(Tail(sorted), s)

\* list.sort(key=lambda x: x['priority']): a stable sort.
RECURSIVE sort_by_priority(_)
sort_by_priority(session_seqs) ==
    IF session_seqs = <<>> THEN <<>>
    ELSE insert_by_priority(
            sort_by_priority(SubSeq(session_seqs, 1, Len(session_seqs) - 1)),
            session_seqs[Len(session_seqs)])

RECURSIVE filter_priority(_, _)
filter_priority(session_seqs, best_priority) ==
    IF session_seqs = <<>> THEN <<>>
    ELSE IF Head(session_seqs).priority = best_priority
         THEN <<Head(session_seqs)>> \o filter_priority(Tail(session_seqs), best_priority)
         ELSE filter_priority(Tail(session_seqs), best_priority)

\* A selector that forgets to sort: it takes the priority of the first candidate
\* discovered in the session as the best one.
best_seqs_unsorted(session_seqs) ==
    filter_priority(session_seqs, session_seqs[1].priority)

\* Lines 221-227: sort the session, take the priority of its first entry, keep
\* the entries of that priority.
best_seqs_of(session_seqs) ==
    LET sorted == sort_by_priority(session_seqs)
        best_priority == sorted[1].priority
    IN filter_priority(sorted, best_priority)

\* A run numbering that starts at 0 (enumerate without start=1).
assign_runs_from_zero(best_seqs) ==
    [i \in 1..Len(best_seqs) |->
        [sequence_name |-> best_seqs[i].sequence_name,
         session_date  |-> best_seqs[i].session_date,
         timestamp     |-> best_seqs[i].timestamp,
         num_files     |-> best_seqs[i].num_files,
         priority      |-> best_seqs[i].priority,
         run           |-> IF Len(best_seqs) > 1 THEN i - 1 ELSE None]]

\* Lines 230-232: seq['run'] = run_idx if len(best_seqs) > 1 else None
assign_runs(best_seqs) ==
    [i \in 1..Len(best_seqs) |->
        [sequence_name |-> best_seqs[i].sequence_name,
         session_date  |-> best_seqs[i].session_date,
         timestamp     |-> best_seqs[i].timestamp,
         num_files     |-> best_seqs[i].num_files,
         priority      |-> best_seqs[i].priority,
         run           |-> IF Len(best_seqs) > 1 THEN i ELSE None]]

RECURSIVE select_sessions(_, _)
select_sessions(sequences, keys) ==
    IF keys = <<>> THEN <<>>
    ELSE assign_runs(best_seqs_of(session_group(sequences, Head(keys))))
         \o select_sessions(sequences, Tail(keys))

select_best_sequences(sequences) ==
    IF sequences = <<>> THEN <<>>
    ELSE select_sessions(sequences, session_keys(sequences))

\* Lines 172-180: the candidate find_t1_sequences appends for one timestamp
\* directory of one series directory.
candidate(seq_name, timestamp_name, n_dicom_files, session_date, priority) ==
    [sequence_name |-> seq_name,
     session_date  |-> session_date,
     timestamp     |-> timestamp_name,
     num_files     |-> n_dicom_files,
     priority      |-> priority]

\* The timestamp directories of a subject, in the order the two nested loops of
\* find_t1_sequences visit them: each is [seq_name, timestamp_name,
\* n_dicom_files |-> the number of entries of its container matching *.dcm].

\* A discovery that does not look whether the container holds a file.
RECURSIVE find_t1_sequences_no_file_check(_, _, _, _)
find_t1_sequences_no_file_check(dirs, is_t1, session_date_of, priority_of) ==
    IF dirs = <<>> THEN <<>>
    ELSE (IF is_t1[Head(dirs).seq_name]
          THEN << candidate(Head(dirs).seq_name, Head(dirs).timestamp_name,
                            Head(dirs).n_dicom_files,
                            session_date_of[Head(dirs).timestamp_name],
                            priority_of[Head(dirs).seq_name]) >>
          ELSE <<>>)
         \o find_t1_sequences_no_file_check(Tail(dirs), is_t1, session_date_of, priority_of)

\* find_t1_sequences, lines 139-182, given the values of is_t1_sequence and
\* get_sequence_priority on the names of the series directories and of
\* extract_session_date on the names of the timestamp directories.  A subject
\* without a directory (lines 135-137) gives the same result as one whose
\* directory is empty.
RECURSIVE find_t1_sequences(_, _, _, _)
find_t1_sequences(dirs, is_t1, session_date_of, priority_of) ==
    IF dirs = <<>> THEN <<>>
    ELSE (IF is_t1[Head(dirs).seq_name] /\ Head(dirs).n_dicom_files > 0
          THEN << candidate(Head(dirs).seq_name, Head(dirs).timestamp_name,
                            Head(dirs).n_dicom_files,
                            session_date_of[Head(dirs).timestamp_name],
                            priority_of[Head(dirs).seq_name]) >>
          ELSE <<>>)
         \o find_t1_sequences(Tail(dirs), is_t1, session_date_of, priority_of)

DcmSuffix == <<".","d","c","m">>

\* A pattern that matches every name.
glob_any(names) == names

\* Path.glob("*.dcm"), line 167: of the names directly inside a directory, those
\* that end with .dcm (the match is case-sensitive on a POSIX file system).
glob_dcm(names) ==
    { n \in names : Len(n) >= Len(DcmSuffix)
                    /\ SubSeq(n, Len(n) - Len(DcmSuffix) + 1, Len(n)) = DcmSuffix }

\* An entry of a timestamp directory is [name, is_dir, names |-> the names of
\* the files inside it, {} for a file].  The timestamp directory as such an
\* entry: the names inside it are those of its children.
as_entry(timestamp_name, children) ==
    [name |-> timestamp_name, is_dir |-> TRUE, names |-> { c.name : c \in children }]

\* Line 164:  dicom_dirs[0] if len(dicom_dirs) == 1 else timestamp_dir.  The only
\* child is taken whether it is a directory or a file.
dicom_dir_of(timestamp_name, children) ==
    IF Cardinality(children) = 1
    THEN CHOOSE c \in children : TRUE
    ELSE as_entry(timestamp_name, children)

\* Line 167: list(dicom_dir.glob("*.dcm")); globbing under a path that is not a
\* directory yields nothing.
dicom_files_of(timestamp_name, children) ==
    LET dicom_dir == dicom_dir_of(timestamp_name, children)
    IN IF dicom_dir.is_dir THEN glob_dcm(dicom_dir.names) ELSE {}

\* Lines 159-169 and 178: len(dicom_files), 0 when the timestamp directory is
\* empty (line 160) or nothing matches (line 168).
num_files_of(timestamp_name, children) ==
    IF children = {} THEN 0
    ELSE Cardinality(dicom_files_of(timestamp_name, children))

DigitChars == <<"0","1","2","3","4","5","6","7","8","9">>

\* str(n) for a natural number n, as the f-strings format subject_id.
RECURSIVE str_int(_)
str_int(n) ==
    IF n < 10 THEN << DigitChars[n + 1] >>
    ELSE str_int(n \div 10) \o << DigitChars[(n % 10) + 1] >>

\* f"{run:02d}" for a natural number: zero-padded to two characters.
format_02d(run) ==
    IF run < 10 THEN <<"0">> \o str_int(run) ELSE str_int(run)

\* A file name whose run number is not padded.
nifti_filename_unpadded(subject, session_date, run) ==
    IF run # None /\ run # 0
    THEN <<"s","u","b","-">> \o str_int(subject) \o <<"_","s","e","s","-">> \o session_date
         \o <<"_","r","u","n","-">> \o str_int(run) \o <<"_","T","1","w">>
    ELSE <<"s","u","b","-">> \o str_int(subject) \o <<"_","s","e","s","-">> \o session_date
         \o <<"_","T","1","w">>

\* A file name that leaves out the run number.
nifti_filename_without_run(subject, session_date, run) ==
    <<"s","u","b","-">> \o str_int(subject) \o <<"_","s","e","s","-">> \o session_date
    \o <<"_","T","1","w">>

\* convert_to_nifti, lines 246-250: the BIDS file name;  if run:  is false for
\* None and for 0.
nifti_filename(subject, session_date, run) ==
    IF run # None /\ run # 0
    THEN <<"s","u","b","-">> \o str_int(subject) \o <<"_","s","e","s","-">> \o session_date
         \o <<"_","r","u","n","-">> \o format_02d(run) \o <<"_","T","1","w">>
    ELSE <<"s","u","b","-">> \o str_int(subject) \o <<"_","s","e","s","-">> \o session_date
         \o <<"_","T","1","w">>

\* What the call of dcm2niix does: it returns and {filename}.nii.gz is there, it
\* returns and the file is not there, it ends with a non-zero status
\* (check=True), or subprocess.run raises another exception.
Dcm2niixOutcomes == { "output", "no_output", "CalledProcessError", "Exception" }

\* main, line 471: OUTPUT_ROOT / f"sub-{subject_id}" / f"ses-{session_date}" / "anat",
\* as the list of its components below OUTPUT_ROOT.
output_dir_of(subject, session_date) ==
    << <<"s","u","b","-">> \o str_int(subject),
       <<"s","e","s","-">> \o session_date,
       <<"a","n","a","t">> >>

\* convert_to_nifti, lines 237-296, for one entry of selected and the files
\* under OUTPUT_ROOT: the file name handed to dcm2niix, the file whose existence
\* is tested, the files after the call and the value returned.  The except
\* clauses return False; otherwise the value is nifti_file.exists().
convert_to_nifti(subject, sequence_info, output_dir, outcome, files) ==
    LET filename == nifti_filename(subject, sequence_info.session_date, sequence_info.run)
        nifti_file == filename \o <<".","n","i","i",".","g","z">>
        files_after == IF outcome = "output"
                       THEN files \cup { << output_dir, nifti_file >> }
                       ELSE files
    IN [sequence_info |-> sequence_info,
        output_dir    |-> output_dir,
        filename      |-> filename,
        nifti_file    |-> nifti_file,
        produced      |-> (outcome = "output"),
        files         |-> files_after,
        success       |-> IF outcome \in { "CalledProcessError", "Exception" }
                          THEN FALSE
                          ELSE << output_dir, nifti_file >> \in files_after]

\* A count that leaves a failed conversion out.
count_conversion_success_only(counters, success) ==
    IF success
    THEN [counters EXCEPT !.successful_conversions = @ + 1]
    ELSE counters

\* main, lines 476-479: the conversion is counted as successful or as failed.
count_conversion(counters, success) ==
    IF success
    THEN [counters EXCEPT !.successful_conversions = @ + 1]
    ELSE [counters EXCEPT !.failed_conversions = @ + 1]

-----------------------------------------------------------------------------
(* combine_volumes_with_subjects.py: the QC gate *)

\* A table is [columns |-> the set of its QC columns, rows |-> its rows in order];
\* a row is [index |-> its index label, qc |-> the cell of each column].
\* Scores are in hundredths: 0.75 is 75.

\* qc_thresholds, in the order of the dict literal.
QC_THRESHOLDS == <<
    << "qc_hippocampus+amygdala", 75 >>,
    << "qc_general white matter", 75 >>,
    << "qc_general grey matter", 70 >> >>

\* Series >= threshold: False for a NaN cell.
ge(value, threshold) == value # NaN /\ value >= threshold

\* Series < threshold: False for a NaN cell.
lt(value, threshold) == value # NaN /\ value < threshold

RECURSIVE rows_where_ge(_, _, _)
rows_where_ge(rows, qc_col, threshold) ==
    IF rows = <<>> THEN <<>>
    ELSE IF ge(Head(rows).qc[qc_col], threshold)
         THEN <<Head(rows)>> \o rows_where_ge(Tail(rows), qc_col, threshold)
         ELSE rows_where_ge(Tail(rows), qc_col, threshold)

\* A filter that reads combined_df instead of the table filtered so far.
filter_step_from_combined(df, qc_col, threshold) ==
    IF qc_col \in df.columns
    THEN [columns |-> df.columns,
          rows |-> rows_where_ge(combined_df.rows, qc_col, threshold)]
    ELSE df

\* A filter without the guard  if qc_col in filtered_df.columns : a column that
\* is absent reads as missing cells.
filter_step_unguarded(df, qc_col, threshold) ==
    IF qc_col \in df.columns
    THEN [columns |-> df.columns, rows |-> rows_where_ge(df.rows, qc_col, threshold)]
    ELSE [columns |-> df.columns, rows |-> <<>>]

\* Lines 158-160: one iteration of the filter loop.
filter_step(df, qc_col, threshold) ==
    IF qc_col \in df.columns
    THEN [columns |-> df.columns, rows |-> rows_where_ge(df.rows, qc_col, threshold)]
    ELSE df

\* Line 159: len(filtered_df[filtered_df[qc_col] < threshold])
n_filtered(df, qc_col, threshold) ==
    Cardinality({ i \in 1..Len(df.rows) : lt(df.rows[i].qc[qc_col], threshold) })

\* Lines 158-161: the line printed for a column the table has, nothing for
\* another one.
print_removed(printed, df, qc_col, threshold) ==
    IF qc_col \in df.columns
    THEN Append(printed, [qc_col |-> qc_col,
                          n_filtered |-> n_filtered(df, qc_col, threshold)])
    ELSE printed

\* Lines 157-161: the whole loop over the items of a thresholds dict.
RECURSIVE apply_filters(_, _)
apply_filters(df, items) ==
    IF items = <<>> THEN df
    ELSE apply_filters(filter_step(df, Head(items)[1], Head(items)[2]), Tail(items))

-----------------------------------------------------------------------------
(* The per-dataset join of match_subjects_with_volumes.py and                *)
(* combine_volumes_with_subjects.py                                          *)

\* The keys of volumes_files, in the order of the dict literal.
VolumeDatasets == << "ADNI", "IXI", "OASIS2", "OASIS3", "PPMI", "SRPBS" >>

\* A subject table is a list of rows [subject_id, dataset].  A measurement table
\* is [subject_col |-> the name of its identifier column, rows |-> the list of
\* the identifiers of its rows, qc_columns |-> the set of its QC columns,
\* qc |-> the QC cells of each row].  A joined row is
\* [subject_id, dataset, vol_row |-> position of the measurement row joined].

\* A selection that does not look at the dataset label.
rows_of_dataset_any_label(df, dataset) == df

RECURSIVE rows_of_dataset(_, _)
rows_of_dataset(df, dataset) ==
    IF df = <<>> THEN <<>>
    ELSE IF Head(df).dataset = dataset
         THEN <<Head(df)>> \o rows_of_dataset(Tail(df), dataset)
         ELSE rows_of_dataset(Tail(df), dataset)

\* subjects_df['dataset'].unique(): the labels in order of first appearance.
RECURSIVE unique_datasets(_)
unique_datasets(df) ==
    IF df = <<>> THEN <<>>
    ELSE LET rest == unique_datasets(SubSeq(df, 1, Len(df) - 1))
             d == df[Len(df)].dataset
         IN IF \E i \in 1..Len(rest) : rest[i] = d THEN rest ELSE Append(rest, d)

\* The datasets whose volumes file exists, in the order of volumes_files.
RECURSIVE loaded_datasets(_, _)
loaded_datasets(keys, dfs) ==
    IF keys = <<>> THEN <<>>
    ELSE IF Head(keys) \in DOMAIN dfs
         THEN <<Head(keys)>> \o loaded_datasets(Tail(keys), dfs)
         ELSE loaded_datasets(Tail(keys), dfs)

\* The rows one left row yields in DataFrame.merge: one per right row with an
\* equal key, in the order of the right table, from position k on.
RECURSIVE matches_of(_, _, _, _)
matches_of(left_row, left_key, right_keys, k) ==
    IF k > Len(right_keys) THEN <<>>
    ELSE IF right_keys[k] = left_key
         THEN << [subject_id |-> left_row.subject_id,
                  dataset    |-> left_row.dataset,
                  vol_row    |-> k] >>
              \o matches_of(left_row, left_key, right_keys, k + 1)
         ELSE matches_of(left_row, left_key, right_keys, k + 1)

\* The rows of DataFrame.merge that come from both sides (how='inner', or
\* how='left' restricted to _merge == 'both'), keys given per row.
RECURSIVE merge_both(_, _, _)
merge_both(left_rows, left_keys, right_keys) ==
    IF left_rows = <<>> THEN <<>>
    ELSE matches_of(Head(left_rows), Head(left_keys), right_keys, 1)
         \o merge_both(Tail(left_rows), Tail(left_keys), right_keys)

\* combine_volumes_with_subjects.py lines 119-124: merge on the raw identifiers.
combine_merge(dataset_subjects, vol_df) ==
    merge_both(dataset_subjects,
               [i \in 1..Len(dataset_subjects) |-> dataset_subjects[i].subject_id],
               vol_df.rows)

\* match_subjects_with_volumes.py lines 72-95: merge on the normalized
\* identifiers, keep the rows found on both sides.
match_merge(dataset_subjects, vol_df) ==
    merge_both(dataset_subjects,
               [i \in 1..Len(dataset_subjects) |->
                    normalize_subject_id(dataset_subjects[i].subject_id)],
               [k \in 1..Len(vol_df.rows) |-> normalize_subject_id(vol_df.rows[k])])

\* A union that keeps the first table only.
concat_first_only(tables) ==
    IF tables = <<>> THEN <<>> ELSE Head(tables)

\* pd.concat(matched_data, ignore_index=True)
RECURSIVE concat(_)
concat(tables) ==
    IF tables = <<>> THEN <<>> ELSE Head(tables) \o concat(Tail(tables))

\* A test that accepts every identifier column.
has_subject_column_any(vol_df) == TRUE

\* 'subject' in col.lower(), for the identifier column of a measurement table
has_subject_column(vol_df) ==
    contains(lower(vol_df.subject_col), <<"s","u","b","j","e","c","t">>)

-----------------------------------------------------------------------------
(* combine_volumes_with_subjects.py: infer_dataset *)

\* The substrings and prefixes infer_dataset looks for.
TokSub    == <<"s","u","b","-">>
TokOASIS  == <<"O","A","S","I","S">>
TokOAS    == <<"O","A","S">>
TokIXI    == <<"I","X","I">>
TokPPMI   == <<"P","P","M","I">>
TokSRPBS  == <<"S","R","P","B","S">>
TokSRPB   == <<"S","R","P","B">>
TokS      == <<"_","S","_">>
TokOAS2   == <<"O","A","S","2","_">>
TokOAS1   == <<"O","A","S","1","_">>

\* A variant whose 'sub-' branch falls through to the later rules when none of
\* its four tokens is found.
infer_dataset_fall_through(subject_id) ==
    IF startswith(subject_id, TokSub)
       /\ (contains(subject_id, TokOASIS) \/ contains(subject_id, TokOAS))
    THEN "OASIS3"
    ELSE IF startswith(subject_id, TokSub) /\ contains(subject_id, TokIXI) THEN "IXI"
    ELSE IF startswith(subject_id, TokSub) /\ contains(subject_id, TokPPMI) THEN "PPMI"
    ELSE IF startswith(subject_id, TokSub)
            /\ (contains(subject_id, TokSRPBS) \/ contains(subject_id, TokSRPB))
    THEN "SRPBS"
    ELSE IF contains(subject_id, TokS) THEN "ADNI"
    ELSE IF startswith(subject_id, TokOAS2) THEN "OASIS2"
    ELSE IF startswith(subject_id, TokOAS1) THEN "OASIS1"
    ELSE "UNKNOWN"

\* A variant that looks for 'IXI' before 'OASIS'/'OAS' inside the 'sub-' branch.
infer_dataset_ixi_first(subject_id) ==
    IF startswith(subject_id, TokSub)
    THEN IF contains(subject_id, TokIXI) THEN "IXI"
         ELSE IF contains(subject_id, TokOASIS) \/ contains(subject_id, TokOAS)
              THEN "OASIS3"
         ELSE IF contains(subject_id, TokPPMI) THEN "PPMI"
         ELSE IF contains(subject_id, TokSRPBS) \/ contains(subject_id, TokSRPB)
              THEN "SRPBS"
         ELSE "UNKNOWN"
    ELSE IF contains(subject_id, TokS) THEN "ADNI"
    ELSE IF startswith(subject_id, TokOAS2) THEN "OASIS2"
    ELSE IF startswith(subject_id, TokOAS1) THEN "OASIS1"
    ELSE "UNKNOWN"

\* Lines 70-87.  The argument is the text str(subject_id).  An identifier that
\* starts with 'sub-' and holds none of the four tokens of that branch leaves the
\* if/elif chain and reaches the final return.
infer_dataset(subject_id) ==
    IF startswith(subject_id, TokSub)
    THEN IF contains(subject_id, TokOASIS) \/ contains(subject_id, TokOAS)
              THEN "OASIS3"
         ELSE IF contains(subject_id, TokIXI) THEN "IXI"
         ELSE IF contains(subject_id, TokPPMI) THEN "PPMI"
         ELSE IF contains(subject_id, TokSRPBS) \/ contains(subject_id, TokSRPB)
              THEN "SRPBS"
         ELSE "UNKNOWN"
    ELSE IF contains(subject_id, TokS) THEN "ADNI"
    ELSE IF startswith(subject_id, TokOAS2) THEN "OASIS2"
    ELSE IF startswith(subject_id, TokOAS1) THEN "OASIS1"
    ELSE "UNKNOWN"

-----------------------------------------------------------------------------
(* combine_volumes_with_subjects.py: loading, union and saving *)

\* A resolution that falls back on 'subject_id' when neither column is there.
subject_col_or_default(columns) ==
    IF "subject_id" \in columns THEN "subject_id"
    ELSE IF "Subject" \in columns THEN "Subject"
    ELSE "subject_id"

\* Lines 56-62: the identifier column of the subject table; "ValueError" stands
\* for the raise of line 62.
subject_col_of(columns) ==
    IF "subject_id" \in columns THEN "subject_id"
    ELSE IF "Subject" \in columns THEN "Subject"
    ELSE "ValueError"

\* Lines 67-89: the dataset column is added from the identifiers when the
\* table has none.
with_dataset_column(df, columns) ==
    IF "dataset" \in columns THEN df
    ELSE [i \in 1..Len(df) |->
             [df[i] EXCEPT !.dataset = infer_dataset(df[i].subject_id)]]

\* Lines 31-38: the datasets for which the loading loop prints 'File not found'.
files_not_found(keys, dfs) ==
    { keys[k] : k \in { i \in 1..Len(keys) : keys[i] \notin DOMAIN dfs } }

\* selected_df['dataset'].value_counts(), line 91: the labels with their counts.
value_counts(df) ==
    [d \in { df[i].dataset : i \in 1..Len(df) } |->
        Cardinality({ i \in 1..Len(df) : df[i].dataset = d })]

\* The datasets whose merged table was appended to matched_data (line 127).
matched_datasets(rep) ==
    { rep[i].dataset : i \in { j \in 1..Len(rep) : rep[j].kind = "matched" } }

\* Line 135: pd.concat gives the union of the columns of the tables of
\* matched_data, a table without rows included; a cell of a column its table
\* does not have is NaN.
concat_table(joined, vols, datasets) ==
    LET columns == UNION { vols[d].qc_columns : d \in datasets }
    IN [columns |-> columns,
        rows |-> [i \in 1..Len(joined) |->
            [index      |-> i - 1,
             subject_id |-> joined[i].subject_id,
             dataset    |-> joined[i].dataset,
             qc         |-> [c \in columns |->
                 IF c \in vols[joined[i].dataset].qc_columns
                 THEN vols[joined[i].dataset].qc[joined[i].vol_row][c]
                 ELSE NaN]]]]

-----------------------------------------------------------------------------
(* organize_ct_synthseg.py *)

\* A source file system is [dirs |-> the source directories that exist,
\* volumes, qc, segmentation |-> the names in each directory]; the target is
\* [exists |-> whether TARGET_DIR exists, dirs |-> the subject directories in it,
\* files |-> the <<subject directory, file name>> pairs in them].

CsvSuffix == <<".","c","s","v">>
SegSuffix == <<"c","t","T","e","m","p","l","a","t","e","s","p","a","c","e","_","s","y","n","t","h","s","e","g",".","n","i","i",".","g","z">>

\* str.replace(old, ''): the occurrences of old are removed from left to right.
RECURSIVE replace_by_empty(_, _)
replace_by_empty(s, old) ==
    IF Len(s) < Len(old) THEN s
    ELSE IF SubSeq(s, 1, Len(old)) = old
         THEN replace_by_empty(SubSeq(s, Len(old) + 1, Len(s)), old)
         ELSE << s[1] >> \o replace_by_empty(Tail(s), old)

\* Line 53.
extract_subject_id(filename) ==
    replace_by_empty(replace_by_empty(filename, CsvSuffix), SegSuffix)

\* VOLUMES_DIR.glob("*.csv"), line 183: the names that end with .csv
glob_csv(names) ==
    { n \in names : Len(n) >= Len(CsvSuffix)
                    /\ SubSeq(n, Len(n) - Len(CsvSuffix) + 1, Len(n)) = CsvSuffix }

\* The keys of the dict files of find_subject_files, in the order of the literal.
FileKinds == << "volumes", "qc", "segmentation" >>

\* Lines 69-73: the name looked for in each source directory.
source_name(kind, subject_id) ==
    IF kind = "segmentation" THEN subject_id \o SegSuffix ELSE subject_id \o CsvSuffix

\* A precheck that looks for the volumes file only.
missing_files_volumes_only(subject_id, src) ==
    IF source_name("volumes", subject_id) \notin src["volumes"]
    THEN << "volumes" >> ELSE <<>>

\* Lines 76-78: the list missing of find_subject_files; the function raises
\* FileNotFoundError when it is not empty.
missing_files(subject_id, src) ==
    SelectSeq(FileKinds, LAMBDA kind : source_name(kind, subject_id) \notin src[kind])

\* Lines 106-110: the destination names, in the order of operations.
Operations == << "volumes.csv", "qc_scores.csv", "segmentation.nii.gz" >>

\* target_subject_dir.mkdir(parents=True, exist_ok=True)
mkdir_subject(tgt, subject_id) ==
    [tgt EXCEPT !.exists = TRUE, !.dirs = @ \cup { subject_id }]

\* shutil.copy2 for the first n operations.
copy_first(tgt, subject_id, n) ==
    [tgt EXCEPT !.files = @ \cup { << subject_id, Operations[k] >> : k \in 1..n }]

\* Where a real run may raise: in mkdir (0), in the k-th copy (k), nowhere
\* (Len(Operations) + 1).
FaultPoints == 0..(Len(Operations) + 1)

\* A copy step that makes the directory and copies whatever dry_run says.
copy_subject_files_ignoring_dry_run(subject_id, dry, src, tgt, fault_at) ==
    LET missing == missing_files(subject_id, src)
    IN IF missing # <<>>
       THEN [success |-> FALSE,
             message |-> [subject_id |-> subject_id, kind |-> "FileNotFoundError",
                          missing |-> missing],
             target |-> tgt]
       ELSE IF fault_at = 0
       THEN [success |-> FALSE,
             message |-> [subject_id |-> subject_id, kind |-> "Exception",
                          missing |-> <<>>],
             target |-> tgt]
       ELSE IF fault_at <= Len(Operations)
       THEN [success |-> FALSE,
             message |-> [subject_id |-> subject_id, kind |-> "Exception",
                          missing |-> <<>>],
             target |-> copy_first(mkdir_subject(tgt, subject_id), subject_id,
                                   fault_at - 1)]
       ELSE [success |-> TRUE,
             message |-> [subject_id |-> subject_id, kind |-> "Copied 3 files",
                          missing |-> <<>>],
             target |-> copy_first(mkdir_subject(tgt, subject_id), subject_id,
                                   Len(Operations))]

\* copy_subject_files, lines 83-122: the value returned and the target file
\* system after the call.  With dry_run the function only tests the existence of
\* the source files and prints.
copy_subject_files(subject_id, dry, src, tgt, fault_at) ==
    LET missing == missing_files(subject_id, src)
    IN IF missing # <<>>
       THEN [success |-> FALSE,
             message |-> [subject_id |-> subject_id, kind |-> "FileNotFoundError",
                          missing |-> missing],
             target |-> tgt]
       ELSE IF dry
       THEN [success |-> TRUE,
             message |-> [subject_id |-> subject_id, kind |-> "Copied 3 files",
                          missing |-> <<>>],
             target |-> tgt]
       ELSE IF fault_at = 0
       THEN [success |-> FALSE,
             message |-> [subject_id |-> subject_id, kind |-> "Exception",
                          missing |-> <<>>],
             target |-> tgt]
       ELSE IF fault_at <= Len(Operations)
       THEN [success |-> FALSE,
             message |-> [subject_id |-> subject_id, kind |-> "Exception",
                          missing |-> <<>>],
             target |-> copy_first(mkdir_subject(tgt, subject_id), subject_id,
                                   fault_at - 1)]
       ELSE [success |-> TRUE,
             message |-> [subject_id |-> subject_id, kind |-> "Copied 3 files",
                          missing |-> <<>>],
             target |-> copy_first(mkdir_subject(tgt, subject_id), subject_id,
                                   Len(Operations))]

-----------------------------------------------------------------------------
(* Bounds and input sets *)

\* Strings handed to the string functions: up to MaxFrags fragments in a row.
MaxFrags == 3
\* Candidates find_t1_sequences discovers for the subject.
MaxSeqs == 3
\* *.dcm files in a container that holds some.
SampleFiles == 2
\* Rows of the unioned table handed to the QC gate.
MaxRows == 2
\* Rows of the subject table, rows of one measurement table.
MaxSubjects == 2
MaxVolRows == 2

Fragments == {
    <<"L","o","c","a","l","i","z","e","r">>,
    <<"S","c","o","u","t">>,
    <<"T","1">>,
    <<"M","P","R","A","G","E">>,
    <<"_","G","R","A","P","P","A">>,
    <<"3","D","_","T","1","-","w","e","i","g","h","t","e","d">>,
    <<"S","A","G","_","3","D","_">>,
    <<"F","S","P","G","R">>,
    <<"\n">>,
    <<"2","0","1","1","-","0","4","-","0","5">>,
    <<"s","u","b","-">> }

RECURSIVE Concats(_)
Concats(n) ==
    IF n = 0 THEN { <<>> }
    ELSE LET shorter == Concats(n - 1)
         IN shorter \cup { t \o f : t \in shorter, f \in Fragments }

\* Identifiers handed to infer_dataset: up to MaxIdFrags fragments in a row.
MaxIdFrags == 3

IdFragments == {
    TokSub, TokOAS, <<"I","S">>, TokIXI, TokPPMI, TokSRPB, <<"S">>, TokS,
    TokOAS2, TokOAS1, <<"i","x","i">>, <<"0","1">> }

RECURSIVE IdTexts(_)
IdTexts(n) ==
    IF n = 0 THEN { <<>> }
    ELSE LET shorter == IdTexts(n - 1)
         IN shorter \cup { t \o f : t \in shorter, f \in IdFragments }

\* Names of the series directories of the subject.
SeriesNames == {
    <<"M","P","R","A","G","E">>,
    <<"S","A","G","_","3","D","_","M","P","R","A","G","E">>,
    <<"F","S","P","G","R">>,
    <<"T","1","_","S","A","G">>,
    <<"L","o","c","a","l","i","z","e","r","_","T","1">> }

\* Names of the timestamp directories.
TimestampNames == {
    <<"2","0","1","1","-","0","4","-","0","5","_","1","4","_","4","5","_","4","5",".","0">>,
    <<"2","0","1","1","-","0","4","-","0","5","_","0","9","_","3","0","_","0","0",".","0">>,
    <<"2","0","2","1","-","0","5","-","1","7","_","1","0","_","4","7","_","2","4",".","0">>,
    <<"-","-","-">> }

\* Names of the files of a timestamp directory or of its sub-directory.
ImageFileNames == {
    <<"1",".","d","c","m">>,
    <<"2",".","d","c","m">>,
    <<"3",".","I","M","A">>,
    <<"4">> }

\* Names of the sub-directories of a timestamp directory.
ImageDirNames == { <<"I","1">>, <<"I","2">> }

MaxChildren == 2

\* The subsets of S with at most n elements.
RECURSIVE SubsetsUpTo(_, _)
SubsetsUpTo(S, n) ==
    IF n = 0 THEN { {} }
    ELSE LET smaller == SubsetsUpTo(S, n - 1)
         IN smaller \cup { T \cup { x } : T \in smaller, x \in S }

\* What timestamp_dir.iterdir() can list, line 159: up to max_children entries
\* with different names, each a file or a directory holding up to max_children
\* files.
ChildEntries(max_children) ==
    { [name |-> n, is_dir |-> FALSE, names |-> {}] : n \in ImageFileNames }
    \cup { [name |-> d, is_dir |-> TRUE, names |-> ns]
           : d \in ImageDirNames, ns \in SubsetsUpTo(ImageFileNames, max_children) }

TimestampChildren(max_children) ==
    { cs \in SubsetsUpTo(ChildEntries(max_children), max_children) :
        \A a, b \in cs : a.name = b.name => a = b }

TimestampLayouts == TimestampChildren(MaxChildren)

\* Cells of a QC column.
QCValues == { NaN, 70, 75 }

QCColumns == { QC_THRESHOLDS[k][1] : k \in 1..Len(QC_THRESHOLDS) }

\* The tables with n rows over the QC columns cols.
TablesOf(cols, n) ==
    { [columns |-> cols,
       rows |-> [i \in 1..n |-> [index |-> i - 1, qc |-> cells[i]]]]
      : cells \in [1..n -> [cols -> QCValues]] }

\* The tables of up to max_rows rows over any of the QC columns.
TablesUpTo(max_rows) ==
    UNION { TablesOf(cols, n) : cols \in SUBSET QCColumns, n \in 0..max_rows }

\* The orders in which the items of qc_thresholds can be written.
ThresholdOrders ==
    { [k \in 1..Len(QC_THRESHOLDS) |-> QC_THRESHOLDS[p[k]]]
      : p \in { q \in [1..Len(QC_THRESHOLDS) -> 1..Len(QC_THRESHOLDS)] :
                  \A a, b \in 1..Len(QC_THRESHOLDS) : a # b => q[a] # q[b] } }

\* Subject identifiers: with the BIDS prefix, without it, and another subject.
SubjectIds == {
    <<"s","u","b","-","0","1">>,
    <<"0","1">> }

\* Dataset labels of the subject table: two with a volumes file, one known label
\* without, and the label infer_dataset gives to an identifier it cannot place.
SubjectLabels == { "ADNI", "IXI", "OASIS1", "UNKNOWN" }

\* Datasets whose volumes file may exist.
FileDatasets == { "ADNI", "IXI" }

\* The values of the three string functions on the directory names of the
\* subject's tree (line 147, line 157, line 179).
SeriesIsT1 == [n \in SeriesNames |-> is_t1_sequence(n)]
SeriesPriority == [n \in SeriesNames |-> get_sequence_priority(n)]
TimestampSessionDate == [t \in TimestampNames |-> extract_session_date(t)]

SubjectColumn == <<"s","u","b","j","e","c","t","_","i","d">>
OtherColumn == <<"I","D">>

SeqsUpTo(S, n) == UNION { [1..k -> S] : k \in 0..n }

SubjectTables(max_rows) ==
    SeqsUpTo([subject_id : SubjectIds, dataset : SubjectLabels], max_rows)

\* Measurement tables without QC columns: with an identifier column, or with
\* one row and none.
VolumeTables(max_rows) ==
    { [subject_col |-> SubjectColumn, rows |-> r,
       qc_columns |-> {}, qc |-> [k \in 1..Len(r) |-> <<>>]]
      : r \in SeqsUpTo(SubjectIds, max_rows) }
    \cup { [subject_col |-> OtherColumn, rows |-> << <<"0","1">> >>,
            qc_columns |-> {}, qc |-> << <<>> >>] }

\* The measurement tables loaded: one per dataset whose file exists.
VolumeFiles(max_rows) ==
    UNION { [D -> VolumeTables(max_rows)] : D \in SUBSET FileDatasets }

\* Inputs of main of convert_ppmi_dicom_to_nifti.py: up to MaxPatnos subjects,
\* each with up to MaxDirs timestamp directories.
MaxPatnos == 2
MaxDirs == 2

\* healthy_subjects['PATNO'].tolist()
Patnos(n) == [i \in 1..n |-> 3000 + i]

MainSeriesNames == {
    <<"M","P","R","A","G","E">>,
    <<"F","S","P","G","R">> }

MainTimestampNames == {
    <<"2","0","1","1","-","0","4","-","0","5","_","1","4","_","4","5","_","4","5",".","0">>,
    <<"2","0","1","1","-","0","4","-","0","5","_","0","9","_","3","0","_","0","0",".","0">>,
    <<"2","0","2","1","-","0","5","-","1","7","_","1","0","_","4","7","_","2","4",".","0">> }

\* Timestamp directories: those of an MPRAGE series with *.dcm files in the
\* container, one of that series without any, and one of an FSPGR series
\* acquired on 2011-04-05.
MainDirEntries ==
    [seq_name : { <<"M","P","R","A","G","E">> }, timestamp_name : MainTimestampNames,
     n_dicom_files : { SampleFiles }]
    \cup { [seq_name |-> <<"M","P","R","A","G","E">>,
            timestamp_name |-> <<"2","0","1","1","-","0","4","-","0","5","_","0","9","_","3","0","_","0","0",".","0">>,
            n_dicom_files |-> 0],
           [seq_name |-> <<"F","S","P","G","R">>,
            timestamp_name |-> <<"2","0","1","1","-","0","4","-","0","5","_","1","4","_","4","5","_","4","5",".","0">>,
            n_dicom_files |-> SampleFiles] }

\* OUTPUT_ROOT before the run: empty, or with the file an earlier run wrote for
\* the only sequence of the session 2021-05-17 of subject 3001.
StaleOutputs == {
    {},
    { << output_dir_of(3001, <<"2","0","2","1","0","5","1","7">>),
         <<"s","u","b","-","3","0","0","1","_","s","e","s","-",
           "2","0","2","1","0","5","1","7","_","T","1","w",".","n","i","i",".","g","z">> >> } }

\* The directory listings of one subject: no timestamp directory twice, the
\* timestamp directories of a series directory one after another.
MainTrees(n) ==
    { dirs \in SeqsUpTo(MainDirEntries, n) :
        \A i, j \in 1..Len(dirs) :
            (i < j /\ dirs[i].seq_name = dirs[j].seq_name) =>
                /\ dirs[i].timestamp_name # dirs[j].timestamp_name
                /\ \A k \in i..j : dirs[k].seq_name = dirs[i].seq_name }

\* The trees a subject of the run may have.
SubjectTrees == MainTrees(MaxDirs)

\* Inputs of a whole run of combine_volumes_with_subjects.py.
MaxQCVolRows == 1

\* An identifier infer_dataset places in ADNI, and one it cannot place.
CombineIds == {
    <<"0","0","2","_","S","_","0","1">>,
    <<"s","u","b","-","0","1">> }

CombineLabels == { "ADNI", "IXI" }

\* The subject table with its columns: up to max_rows rows with the columns
\* 'subject_id' and 'dataset'; and tables of at most one row with the identifier
\* in 'Subject', without a dataset column, or without an identifier column.
CombineSubjectTables(max_rows) ==
    { << { "subject_id", "dataset" }, rows >> :
        rows \in SeqsUpTo([subject_id : CombineIds, dataset : CombineLabels], max_rows) }
    \cup { << { "Subject", "dataset" }, rows >> :
        rows \in SeqsUpTo([subject_id : CombineIds, dataset : CombineLabels], 1) }
    \cup { << { "subject_id" }, rows >> :
        rows \in SeqsUpTo([subject_id : CombineIds, dataset : { "" }], 1) }
    \cup { << { "dataset" }, rows >> :
        rows \in SeqsUpTo([subject_id : { <<>> }, dataset : CombineLabels], 1) }

\* Scores of the one QC column the measurement tables may have.
CombineQCColumn == "qc_hippocampus+amygdala"
CombineQCValues == { 70, 75 }

\* Measurement tables with the QC column, or with one row and no identifier
\* column.
CombineVolumeTables(max_rows) ==
    UNION { { [subject_col |-> SubjectColumn, rows |-> r,
               qc_columns |-> { CombineQCColumn }, qc |-> q]
              : q \in [1..Len(r) -> [{ CombineQCColumn } -> CombineQCValues]] }
            : r \in SeqsUpTo(CombineIds, max_rows) }
    \cup { [subject_col |-> OtherColumn, rows |-> << <<"0","0","2","_","S","_","0","1">> >>,
            qc_columns |-> {}, qc |-> << <<>> >>] }

\* The measurement tables loaded: adni.csv with up to max_rows rows, ixi.csv
\* with at most one, each file there or not.
CombineVolumeFiles(max_rows) ==
    UNION { { [d \in D |-> IF d = "ADNI" THEN vols[1] ELSE vols[2]]
              : vols \in CombineVolumeTables(max_rows) \X CombineVolumeTables(1) }
            : D \in SUBSET FileDatasets }

\* Inputs of organize_ct_synthseg.py: up to MaxOrgFiles names in VOLUMES_DIR.
MaxOrgFiles == 2

OrgVolumeNames == {
    <<"s","u","b","-","1",".","c","s","v">>,
    <<"s","u","b","-","2",".","c","s","v">>,
    <<"s","u","b","-","1",".","c","s","v",".","c","s","v">>,
    <<"n","o","t","e","s",".","t","x","t">> }

OrgQCNames == {
    <<"s","u","b","-","1",".","c","s","v">>,
    <<"s","u","b","-","2",".","c","s","v">> }

OrgSegNames == {
    <<"s","u","b","-","1","c","t","T","e","m","p","l","a","t","e","s","p","a","c","e","_","s","y","n","t","h","s","e","g",".","n","i","i",".","g","z">>,
    <<"s","u","b","-","2","c","t","T","e","m","p","l","a","t","e","s","p","a","c","e","_","s","y","n","t","h","s","e","g",".","n","i","i",".","g","z">> }

\* The source directories: all three there with some names in them, or one of
\* them not there.
OrgSources(max_files) ==
    { [dirs |-> { "volumes", "qc", "segmentation" },
       volumes |-> v, qc |-> q, segmentation |-> g]
      : v \in { x \in SUBSET OrgVolumeNames : Cardinality(x) <= max_files },
        q \in SUBSET OrgQCNames, g \in SUBSET OrgSegNames }
    \cup { [dirs |-> { "volumes", "qc", "segmentation" } \ { k },
            volumes |-> {}, qc |-> {}, segmentation |-> {}]
           : k \in { "volumes", "qc", "segmentation" } }

\* TARGET_DIR before the run: not there, empty, or with a subject directory
\* that holds a volumes.csv.
OrgTargets == {
    [exists |-> FALSE, dirs |-> {}, files |-> {}],
    [exists |-> TRUE, dirs |-> {}, files |-> {}],
    [exists |-> TRUE, dirs |-> { <<"s","u","b","-","1">> },
     files |-> { << <<"s","u","b","-","1">>, "volumes.csv" >> }] }

\* The orders in which glob can yield the names of a set.
Orders(S) ==
    { f \in [1..Cardinality(S) -> S] :
        \A i, j \in 1..Cardinality(S) : i # j => f[i] # f[j] }

\* Labels handed to get_sequence_priority: up to MaxEntries entries of
\* SEQUENCE_PRIORITY in a row.
MaxEntries == 2

RECURSIVE EntryTexts(_)
EntryTexts(n) ==
    IF n = 0 THEN { <<>> }
    ELSE LET shorter == EntryTexts(n - 1)
         IN shorter \cup { t \o SEQUENCE_PRIORITY[k] :
                              t \in shorter, k \in 1..Len(SEQUENCE_PRIORITY) }

-----------------------------------------------------------------------------
(* Initial states *)

TextIdle == arg = <<>> /\ fn = "off" /\ ret = <<>> /\ ret2 = <<>>
SelIdle  == t1_sequences = <<>> /\ selected = <<>> /\ pc = "off"
QCIdle   ==
    /\ combined_df = [columns |-> {}, rows |-> <<>>]
    /\ filtered_df = [columns |-> {}, rows |-> <<>>]
    /\ qc_todo = {}
    /\ removed_counts = <<>>
JoinIdle ==
    /\ script = "off" /\ subjects_df = <<>> /\ volumes_dfs = <<>> /\ todo = <<>>
    /\ matched_data = <<>> /\ joined_df = <<>> /\ jpc = "off"
    /\ selected_cols = {} /\ report = <<>> /\ output_file = <<>>
    /\ dataset_distribution = <<>>
MainIdle ==
    /\ subjects_to_process = <<>> /\ main_subject_id = None /\ subject_dirs = <<>>
    /\ to_convert = <<>> /\ converted = <<>> /\ stats = <<>> /\ output_root = {}
    /\ mpc = "off"

OrgIdle ==
    /\ dry_run = FALSE /\ source_fs = <<>> /\ target_fs = <<>> /\ subject_ids = <<>>
    /\ successes = <<>> /\ failures = <<>> /\ opc = "off" /\ exit_code = None

LayoutIdle == timestamp_dir = <<>>

InitText ==
    /\ arg \in Concats(MaxFrags) /\ fn = "none" /\ ret = <<>> /\ ret2 = <<>>
    /\ SelIdle /\ QCIdle /\ JoinIdle /\ MainIdle /\ OrgIdle /\ LayoutIdle

\* selected_df[subject_col].apply(infer_dataset), line 89: one cell.
InitInfer ==
    /\ arg \in IdTexts(MaxIdFrags) /\ fn = "none" /\ ret = <<>> /\ ret2 = <<>>
    /\ SelIdle /\ QCIdle /\ JoinIdle /\ MainIdle /\ OrgIdle /\ LayoutIdle

\* get_sequence_priority(seq_name), line 179: one series label.
InitPriority ==
    /\ arg \in EntryTexts(MaxEntries) /\ fn = "none" /\ ret = <<>> /\ ret2 = <<>>
    /\ SelIdle /\ QCIdle /\ JoinIdle /\ MainIdle /\ OrgIdle /\ LayoutIdle

\* main, line 449: the subject's list is empty before discovery.
InitSelect ==
    /\ t1_sequences = <<>> /\ selected = <<>> /\ pc = "discover"
    /\ TextIdle /\ QCIdle /\ JoinIdle /\ MainIdle /\ OrgIdle /\ LayoutIdle

\* find_t1_sequences, line 138: the list is empty before the loops; the
\* subject has one timestamp directory.
InitLayout ==
    /\ t1_sequences = <<>> /\ selected = <<>> /\ pc = "discover"
    /\ timestamp_dir \in
          { [seq_name |-> seq_name, timestamp_name |-> timestamp_name,
             children |-> children, visited |-> FALSE]
            : seq_name \in SeriesNames, timestamp_name \in TimestampNames,
              children \in TimestampLayouts }
    /\ TextIdle /\ QCIdle /\ JoinIdle /\ MainIdle /\ OrgIdle

\* Lines 147-155: the unioned table, the configured thresholds, the copy.
InitQC ==
    /\ combined_df \in TablesUpTo(MaxRows)
    /\ filtered_df = combined_df
    /\ qc_todo = { QC_THRESHOLDS[k] : k \in 1..Len(QC_THRESHOLDS) }
    /\ removed_counts = <<>>
    /\ TextIdle /\ SelIdle /\ JoinIdle /\ MainIdle /\ OrgIdle /\ LayoutIdle

\* The tables read from disk, and the iterable of the per-dataset loop.
InitJoin ==
    /\ script \in { "match", "combine" }
    /\ subjects_df \in SubjectTables(MaxSubjects)
    /\ volumes_dfs \in VolumeFiles(MaxVolRows)
    /\ todo = IF script = "combine"
              THEN loaded_datasets(VolumeDatasets, volumes_dfs)
              ELSE unique_datasets(subjects_df)
    /\ matched_data = <<>> /\ joined_df = <<>> /\ jpc = "loop"
    /\ selected_cols = { "subject_id", "dataset" } /\ report = <<>> /\ output_file = <<>>
    /\ dataset_distribution = <<>>
    /\ TextIdle /\ SelIdle /\ QCIdle /\ MainIdle /\ OrgIdle /\ LayoutIdle

\* combine_volumes_with_subjects.py after line 38: the measurement tables are
\* loaded, the subject table is about to be read.
InitCombine ==
    /\ script = "combine"
    /\ \E t \in CombineSubjectTables(MaxSubjects) :
          selected_cols = t[1] /\ subjects_df = t[2]
    /\ volumes_dfs \in CombineVolumeFiles(MaxQCVolRows)
    /\ todo = loaded_datasets(VolumeDatasets, volumes_dfs)
    /\ matched_data = <<>> /\ joined_df = <<>> /\ jpc = "load"
    /\ report = <<>> /\ output_file = <<>> /\ dataset_distribution = <<>>
    /\ TextIdle /\ SelIdle /\ QCIdle /\ MainIdle /\ OrgIdle /\ LayoutIdle

\* main, lines 432-445: the counters are zero, the subject list is read.
InitMain ==
    /\ subjects_to_process \in { Patnos(n) : n \in 0..MaxPatnos }
    /\ main_subject_id = None /\ subject_dirs = <<>>
    /\ t1_sequences = <<>> /\ selected = <<>> /\ pc = "off"
    /\ to_convert = <<>> /\ converted = <<>>
    /\ stats = [subjects_with_dicom |-> 0, subjects_without_dicom |-> 0,
                total_sequences |-> 0, successful_conversions |-> 0,
                failed_conversions |-> 0, total_sessions |-> 0]
    /\ output_root = {}
    /\ mpc = "loop"
    /\ TextIdle /\ QCIdle /\ JoinIdle /\ OrgIdle /\ LayoutIdle

\* main, lines 432-445, run again for the first subject over the output of an
\* earlier run.
InitRerun ==
    /\ subjects_to_process = Patnos(1)
    /\ main_subject_id = None /\ subject_dirs = <<>>
    /\ t1_sequences = <<>> /\ selected = <<>> /\ pc = "off"
    /\ to_convert = <<>> /\ converted = <<>>
    /\ stats = [subjects_with_dicom |-> 0, subjects_without_dicom |-> 0,
                total_sequences |-> 0, successful_conversions |-> 0,
                failed_conversions |-> 0, total_sessions |-> 0]
    /\ output_root \in StaleOutputs
    /\ mpc = "loop"
    /\ TextIdle /\ QCIdle /\ JoinIdle /\ OrgIdle /\ LayoutIdle

\* main, before line 160: nothing has run.
InitOrganize ==
    /\ dry_run \in BOOLEAN
    /\ source_fs \in OrgSources(MaxOrgFiles)
    /\ target_fs \in OrgTargets
    /\ subject_ids = <<>> /\ successes = <<>> /\ failures = <<>>
    /\ opc = "start" /\ exit_code = None
    /\ TextIdle /\ SelIdle /\ QCIdle /\ JoinIdle /\ MainIdle /\ LayoutIdle

-----------------------------------------------------------------------------
(* Actions: the string functions *)

Call(name, value) ==
    /\ fn = "none"
    /\ fn' = name
    /\ ret' = <<value>>
    /\ UNCHANGED <<arg, ret2, SelVars, QCVars, JoinVars, CombineVars, MainVars, OrgVars, LayoutVars>>

CallIsT1Sequence == Call("is_t1_sequence", is_t1_sequence(arg))

CallGetSequencePriority == Call("get_sequence_priority", get_sequence_priority(arg))

CallExtractSessionDate == Call("extract_session_date", extract_session_date(arg))

CallNormalizeSubjectId == Call("normalize_subject_id", normalize_subject_id(arg))

\* normalize_subject_id applied to its own result.
CallNormalizeAgain ==
    /\ fn = "normalize_subject_id"
    /\ ret2 = <<>>
    /\ ret2' = << normalize_subject_id(ret[1]) >>
    /\ UNCHANGED <<arg, fn, ret, SelVars, QCVars, JoinVars, CombineVars, MainVars, OrgVars, LayoutVars>>

NextText ==
    \/ CallIsT1Sequence
    \/ CallGetSequencePriority
    \/ CallExtractSessionDate
    \/ CallNormalizeSubjectId
    \/ CallNormalizeAgain

SpecText == InitText /\ [][NextText]_vars

CallInferDataset == Call("infer_dataset", infer_dataset(arg))

NextInfer == CallInferDataset

SpecInfer == InitInfer /\ [][NextInfer]_vars

NextPriority == CallGetSequencePriority

SpecPriority == InitPriority /\ [][NextPriority]_vars

-----------------------------------------------------------------------------
(* Actions: convert_ppmi_dicom_to_nifti.py, one subject of main *)

\* find_t1_sequences, lines 142-180, for one timestamp directory of one series
\* directory whose container holds n_dicom_files files matching *.dcm.  A series
\* directory is visited once and its timestamp directories one after another.
Discover(seq_name, timestamp_name, n_dicom_files) ==
    /\ pc = "discover"
    /\ Len(t1_sequences) < MaxSeqs
    /\ \A i \in 1..Len(t1_sequences) :
          t1_sequences[i].sequence_name = seq_name =>
             /\ t1_sequences[i].timestamp # timestamp_name
             /\ t1_sequences[Len(t1_sequences)].sequence_name = seq_name
    /\ t1_sequences' =
          IF SeriesIsT1[seq_name] /\ n_dicom_files > 0
          THEN Append(t1_sequences,
                      candidate(seq_name, timestamp_name, n_dicom_files,
                                TimestampSessionDate[timestamp_name],
                                SeriesPriority[seq_name]))
          ELSE t1_sequences
    /\ UNCHANGED <<selected, pc, TextVars, QCVars, JoinVars, CombineVars, MainVars, OrgVars, LayoutVars>>

\* main, lines 451-454: no candidate, the subject is skipped.
NoSequences ==
    /\ pc = "discover"
    /\ t1_sequences = <<>>
    /\ pc' = "skipped"
    /\ UNCHANGED <<t1_sequences, selected, TextVars, QCVars, JoinVars, CombineVars, MainVars, OrgVars, LayoutVars>>

\* main, line 459.
SelectBest ==
    /\ pc = "discover"
    /\ t1_sequences # <<>>
    /\ selected' = select_best_sequences(t1_sequences)
    /\ pc' = "selected"
    /\ UNCHANGED <<t1_sequences, TextVars, QCVars, JoinVars, CombineVars, MainVars, OrgVars, LayoutVars>>

NextSelect ==
    \/ \E seq_name \in SeriesNames, timestamp_name \in TimestampNames,
          n_dicom_files \in {0, SampleFiles} :
          Discover(seq_name, timestamp_name, n_dicom_files)
    \/ NoSequences
    \/ SelectBest

SpecSelect == InitSelect /\ [][NextSelect]_vars

\* find_t1_sequences, lines 142-180, for the timestamp directory of the
\* subject, given what the directory holds.
DiscoverLayout ==
    /\ pc = "discover"
    /\ timestamp_dir # <<>>
    /\ ~timestamp_dir.visited
    /\ timestamp_dir' = [timestamp_dir EXCEPT !.visited = TRUE]
    /\ t1_sequences' =
          t1_sequences
          \o find_t1_sequences(
                << [seq_name |-> timestamp_dir.seq_name,
                    timestamp_name |-> timestamp_dir.timestamp_name,
                    n_dicom_files |-> num_files_of(timestamp_dir.timestamp_name,
                                                   timestamp_dir.children)] >>,
                SeriesIsT1, TimestampSessionDate, SeriesPriority)
    /\ UNCHANGED <<selected, pc, TextVars, QCVars, JoinVars, CombineVars, MainVars, OrgVars>>

NextLayout == DiscoverLayout

SpecLayout == InitLayout /\ [][NextLayout]_vars

-----------------------------------------------------------------------------
(* Actions: convert_ppmi_dicom_to_nifti.py, the loop of main over the subjects *)

\* main, lines 447-464: the next subject, whose directory lists dirs.
MainSubject(dirs) ==
    /\ mpc = "loop" /\ subjects_to_process # <<>>
    /\ main_subject_id' = Head(subjects_to_process)
    /\ subjects_to_process' = Tail(subjects_to_process)
    /\ subject_dirs' = dirs
    /\ t1_sequences' = find_t1_sequences(dirs, SeriesIsT1, TimestampSessionDate,
                                         SeriesPriority)
    /\ converted' = <<>>
    /\ UNCHANGED output_root
    /\ IF t1_sequences' = <<>>
       THEN /\ stats' = [stats EXCEPT !.subjects_without_dicom = @ + 1]
            /\ selected' = <<>>
            /\ to_convert' = <<>>
            /\ mpc' = "loop"
       ELSE /\ selected' = select_best_sequences(t1_sequences')
            /\ stats' = [stats EXCEPT
                  !.subjects_with_dicom = @ + 1,
                  !.total_sequences = @ + Len(selected'),
                  !.total_sessions = @ + Cardinality({ selected'[i].session_date
                                                        : i \in 1..Len(selected') })]
            /\ to_convert' = selected'
            /\ mpc' = "convert"
    /\ UNCHANGED <<pc, TextVars, QCVars, JoinVars, CombineVars, OrgVars, LayoutVars>>

\* main, lines 467-479: one iteration of  for seq in selected , with what
\* dcm2niix did.
MainConvert(outcome) ==
    /\ mpc = "convert" /\ to_convert # <<>>
    /\ LET seq == Head(to_convert)
           output_dir == output_dir_of(main_subject_id, seq.session_date)
           call == convert_to_nifti(main_subject_id, seq, output_dir, outcome, output_root)
       IN /\ converted' = Append(converted, call)
          /\ output_root' = call.files
          /\ stats' = count_conversion(stats, call.success)
    /\ to_convert' = Tail(to_convert)
    /\ mpc' = IF Tail(to_convert) = <<>> THEN "loop" ELSE "convert"
    /\ UNCHANGED <<subjects_to_process, main_subject_id, subject_dirs,
                   SelVars, TextVars, QCVars, JoinVars, CombineVars, OrgVars, LayoutVars>>

\* main, lines 481-500: the loop is over, the counters are logged and saved.
MainFinish ==
    /\ mpc = "loop" /\ subjects_to_process = <<>>
    /\ mpc' = "finished"
    /\ UNCHANGED <<subjects_to_process, main_subject_id, subject_dirs, to_convert,
                   converted, stats, output_root, SelVars, TextVars, QCVars, JoinVars, CombineVars, OrgVars, LayoutVars>>

NextMain ==
    \/ \E dirs \in SubjectTrees : MainSubject(dirs)
    \/ \E outcome \in Dcm2niixOutcomes : MainConvert(outcome)
    \/ MainFinish

SpecMain == InitMain /\ [][NextMain]_vars

SpecRerun == InitRerun /\ [][NextMain]_vars

-----------------------------------------------------------------------------
(* Actions: organize_ct_synthseg.py *)

\* main, lines 171-178: a source directory is not there, main returns 1.
OrgNoSource ==
    /\ opc = "start"
    /\ source_fs.dirs # { FileKinds[k] : k \in 1..Len(FileKinds) }
    /\ opc' = "returned"
    /\ exit_code' = 1
    /\ UNCHANGED <<dry_run, source_fs, target_fs, subject_ids, successes, failures,
                   TextVars, SelVars, QCVars, JoinVars, CombineVars, MainVars, LayoutVars>>

\* main, lines 171-199: the source directories are there; the subjects are
\* listed in the order glob yields the names; TARGET_DIR is made unless dry_run,
\* and main ends with the exception when that mkdir raises.
OrgStart(order, mkdir_ok) ==
    /\ opc = "start"
    /\ source_fs.dirs = { FileKinds[k] : k \in 1..Len(FileKinds) }
    /\ subject_ids' = [i \in 1..Len(order) |-> extract_subject_id(order[i])]
    /\ IF dry_run
       THEN opc' = "loop" /\ UNCHANGED target_fs
       ELSE IF mkdir_ok
            THEN opc' = "loop" /\ target_fs' = [target_fs EXCEPT !.exists = TRUE]
            ELSE opc' = "raise" /\ UNCHANGED target_fs
    /\ UNCHANGED <<dry_run, source_fs, successes, failures, exit_code,
                   TextVars, SelVars, QCVars, JoinVars, CombineVars, MainVars, LayoutVars>>

\* main, lines 201-207: one iteration of the loop over subject_ids.
OrgSubject(fault_at) ==
    /\ opc = "loop" /\ subject_ids # <<>>
    /\ LET result == copy_subject_files(Head(subject_ids), dry_run, source_fs,
                                        target_fs, fault_at)
       IN /\ target_fs' = result.target
          /\ IF result.success
             THEN /\ successes' = Append(successes, Head(subject_ids))
                  /\ UNCHANGED failures
             ELSE /\ failures' = Append(failures, result.message)
                  /\ UNCHANGED successes
    /\ subject_ids' = Tail(subject_ids)
    /\ UNCHANGED <<dry_run, source_fs, opc, exit_code,
                   TextVars, SelVars, QCVars, JoinVars, CombineVars, MainVars, LayoutVars>>

\* main, lines 213-245: the summary, the verification of a real run (which only
\* reads), and the value returned.
OrgFinish ==
    /\ opc = "loop" /\ subject_ids = <<>>
    /\ opc' = "returned"
    /\ exit_code' = IF Len(failures) = 0 THEN 0 ELSE 1
    /\ UNCHANGED <<dry_run, source_fs, target_fs, subject_ids, successes, failures,
                   TextVars, SelVars, QCVars, JoinVars, CombineVars, MainVars, LayoutVars>>

NextOrganize ==
    \/ OrgNoSource
    \/ \E order \in Orders(glob_csv(source_fs.volumes)), mkdir_ok \in BOOLEAN :
          OrgStart(order, mkdir_ok)
    \/ \E fault_at \in FaultPoints : OrgSubject(fault_at)
    \/ OrgFinish

SpecOrganize == InitOrganize /\ [][NextOrganize]_vars

-----------------------------------------------------------------------------
(* Actions: the QC gate of combine_volumes_with_subjects.py *)

\* Lines 157-161: one iteration of  for qc_col, threshold in qc_thresholds.items()
\* The items are visited once each; the order in which the dict yields them is
\* left open, so that every order of the items is a behaviour.
ApplyFilter(item) ==
    /\ item \in qc_todo
    /\ filtered_df' = filter_step(filtered_df, item[1], item[2])
    /\ qc_todo' = qc_todo \ {item}
    /\ removed_counts' = print_removed(removed_counts, filtered_df, item[1], item[2])
    /\ UNCHANGED <<combined_df, TextVars, SelVars, JoinVars, CombineVars, MainVars, OrgVars, LayoutVars>>

NextQC == \E item \in qc_todo : ApplyFilter(item)

SpecQC == InitQC /\ [][NextQC]_vars

-----------------------------------------------------------------------------
(* Actions: the per-dataset loops of the two reconciler scripts *)

\* combine_volumes_with_subjects.py, lines 97-127: one iteration.
CombineDataset ==
    /\ script = "combine" /\ jpc = "loop" /\ todo # <<>>
    /\ LET dataset == Head(todo)
           vol_df == volumes_dfs[dataset]
           dataset_subjects == rows_of_dataset(subjects_df, dataset)
       IN /\ matched_data' =
                IF Len(dataset_subjects) = 0 THEN matched_data
                ELSE IF ~has_subject_column(vol_df) THEN matched_data
                ELSE Append(matched_data, combine_merge(dataset_subjects, vol_df))
          /\ report' = Append(report,
                IF Len(dataset_subjects) = 0
                THEN [dataset |-> dataset, kind |-> "no_subjects", n |-> 0]
                ELSE IF ~has_subject_column(vol_df)
                THEN [dataset |-> dataset, kind |-> "no_subject_column", n |-> 0]
                ELSE [dataset |-> dataset, kind |-> "matched",
                      n |-> Len(combine_merge(dataset_subjects, vol_df))])
    /\ todo' = Tail(todo)
    /\ UNCHANGED <<script, subjects_df, volumes_dfs, joined_df, jpc,
                   selected_cols, output_file, dataset_distribution, TextVars, SelVars, QCVars, MainVars, OrgVars, LayoutVars>>

\* combine_volumes_with_subjects.py, lines 129-136.
CombineFinish ==
    /\ script = "combine" /\ jpc = "loop" /\ todo = <<>>
    /\ IF Len(matched_data) = 0
       THEN jpc' = "exit" /\ UNCHANGED joined_df
       ELSE jpc' = "done" /\ joined_df' = concat(matched_data)
    /\ UNCHANGED <<script, subjects_df, volumes_dfs, todo, matched_data,
                   TextVars, SelVars, QCVars, CombineVars, MainVars, OrgVars, LayoutVars>>

\* match_subjects_with_volumes.py, lines 51-96: one iteration.  The script reads
\* the column 'subject_id' of the measurement table and stops with a KeyError
\* when there is none.
MatchDataset ==
    /\ script = "match" /\ jpc = "loop" /\ todo # <<>>
    /\ LET dataset == Head(todo)
           dataset_subjects == rows_of_dataset(subjects_df, dataset)
       IN IF dataset \notin DOMAIN volumes_dfs
          THEN /\ todo' = Tail(todo)
               /\ UNCHANGED <<matched_data, jpc>>
          ELSE IF volumes_dfs[dataset].subject_col # SubjectColumn
          THEN /\ jpc' = "error"
               /\ UNCHANGED <<matched_data, todo>>
          ELSE /\ matched_data' =
                     Append(matched_data, match_merge(dataset_subjects, volumes_dfs[dataset]))
               /\ todo' = Tail(todo)
               /\ UNCHANGED jpc
    /\ UNCHANGED <<script, subjects_df, volumes_dfs, joined_df,
                   TextVars, SelVars, QCVars, CombineVars, MainVars, OrgVars, LayoutVars>>

\* match_subjects_with_volumes.py, lines 99-144.
MatchFinish ==
    /\ script = "match" /\ jpc = "loop" /\ todo = <<>>
    /\ IF Len(matched_data) > 0
       THEN jpc' = "done" /\ joined_df' = concat(matched_data)
       ELSE jpc' = "nomatch" /\ UNCHANGED joined_df
    /\ UNCHANGED <<script, subjects_df, volumes_dfs, todo, matched_data,
                   TextVars, SelVars, QCVars, CombineVars, MainVars, OrgVars, LayoutVars>>

\* combine_volumes_with_subjects.py, lines 51-91: the identifier column of the
\* subject table is resolved and the dataset column added when it is missing.
CombineLoad ==
    /\ script = "combine" /\ jpc = "load"
    /\ IF subject_col_of(selected_cols) = "ValueError"
       THEN /\ jpc' = "raise"
            /\ UNCHANGED <<subjects_df, selected_cols, dataset_distribution>>
       ELSE /\ jpc' = "loop"
            /\ subjects_df' = with_dataset_column(subjects_df, selected_cols)
            /\ selected_cols' = selected_cols \cup { "dataset" }
            /\ dataset_distribution' =
                  IF "dataset" \in selected_cols THEN dataset_distribution
                  ELSE value_counts(subjects_df')
    /\ UNCHANGED <<script, volumes_dfs, todo, matched_data, joined_df,
                   report, output_file, TextVars, SelVars, QCVars, MainVars, OrgVars, LayoutVars>>

\* combine_volumes_with_subjects.py, lines 138-155: the unioned table is
\* handed to the QC gate.
CombineStartQC ==
    /\ script = "combine" /\ jpc = "done"
    /\ combined_df' = concat_table(joined_df, volumes_dfs, matched_datasets(report))
    /\ filtered_df' = combined_df'
    /\ qc_todo' = { QC_THRESHOLDS[k] : k \in 1..Len(QC_THRESHOLDS) }
    /\ removed_counts' = <<>>
    /\ jpc' = "qc"
    /\ UNCHANGED <<script, subjects_df, volumes_dfs, todo, matched_data, joined_df,
                   TextVars, SelVars, CombineVars, MainVars, OrgVars, LayoutVars>>

\* combine_volumes_with_subjects.py, lines 163-216: the columns are selected,
\* the derived columns added and the table written; the rows are those of
\* filtered_df.
CombineSave ==
    /\ script = "combine" /\ jpc = "qc" /\ qc_todo = {}
    /\ output_file' = << filtered_df.rows >>
    /\ jpc' = "saved"
    /\ UNCHANGED <<script, subjects_df, volumes_dfs, todo, matched_data, joined_df,
                   selected_cols, report, dataset_distribution, TextVars, SelVars, QCVars,
                   MainVars, OrgVars, LayoutVars>>

NextJoin ==
    \/ CombineDataset
    \/ CombineFinish
    \/ MatchDataset
    \/ MatchFinish

SpecJoin == InitJoin /\ [][NextJoin]_vars

\* The whole of combine_volumes_with_subjects.py.
NextCombine ==
    \/ CombineLoad
    \/ CombineDataset
    \/ CombineFinish
    \/ CombineStartQC
    \/ \E item \in qc_todo : ApplyFilter(item)
    \/ CombineSave

SpecCombine == InitCombine /\ [][NextCombine]_vars

-----------------------------------------------------------------------------
(* Properties of the Sequence Selector *)

\* The candidates of t1_sequences whose session key is key.
InSession(key) == SelectSeq(t1_sequences, LAMBDA c : c.session_date = key)

\* The least priority among the candidates of the session key.
MinPriority(key) ==
    CHOOSE m \in { c.priority : c \in { InSession(key)[i] : i \in 1..Len(InSession(key)) } } :
        \A i \in 1..Len(InSession(key)) : m <= InSession(key)[i].priority

\* The candidates of the session that attain its least priority, in input order.
MinCandidates(key) == SelectSeq(InSession(key), LAMBDA c : c.priority = MinPriority(key))

\* The selected entries of the session, in output order.
SelectedIn(key) == SelectSeq(selected, LAMBDA e : e.session_date = key)

SameCandidate(e, c) == e.sequence_name = c.sequence_name /\ e.timestamp = c.timestamp

\* C1: after select_best_sequences, in every session the selected entries are the
\* candidates attaining the session's minimum priority, in input order; a single
\* one has run None, N > 1 of them have the runs 1..N in that order.
C1_TieRunRule ==
    pc = "selected" =>
        \A j \in 1..Len(t1_sequences) :
            LET key == t1_sequences[j].session_date
                mins == MinCandidates(key)
                sel == SelectedIn(key)
            IN /\ Len(sel) = Len(mins)
               /\ \A i \in 1..Len(sel) :
                     /\ SameCandidate(sel[i], mins[i])
                     /\ sel[i].run = IF Len(mins) = 1 THEN None ELSE i

\* A session with a tie (runs 1 and 2) beside a session with a single best candidate.
C1_Witness ==
    /\ pc = "selected"
    /\ \E i, j, k \in 1..Len(selected) :
          /\ selected[i].run = 1 /\ selected[j].run = 2
          /\ selected[i].session_date = selected[j].session_date
          /\ selected[k].run = None

\* C2: every selected entry has the minimum priority of its session, and no
\* candidate of a strictly larger priority than its session's minimum is selected.
C2_OnlyBestRank ==
    pc = "selected" =>
        /\ \A i \in 1..Len(selected) :
              selected[i].priority = MinPriority(selected[i].session_date)
        /\ \A j \in 1..Len(t1_sequences) :
              t1_sequences[j].priority > MinPriority(t1_sequences[j].session_date) =>
                  \A i \in 1..Len(selected) : ~SameCandidate(selected[i], t1_sequences[j])

\* Three candidates in one session, two sharing the best rank: two entries, runs 1, 2.
C2_Witness ==
    /\ pc = "selected"
    /\ Len(t1_sequences) = 3
    /\ \A j \in 1..3 : t1_sequences[j].session_date = t1_sequences[1].session_date
    /\ \E j \in 1..3 : t1_sequences[j].priority > MinPriority(t1_sequences[1].session_date)
    /\ Len(selected) = 2
    /\ selected[1].run = 1 /\ selected[2].run = 2

\* The timestamp starts with four digits, '-', two digits, '-', two digits.
StartsWithDate(ts) ==
    /\ Len(ts) >= 10
    /\ \A i \in {1, 2, 3, 4, 6, 7, 9, 10} : ts[i] \in Digits
    /\ ts[5] = "-" /\ ts[8] = "-"

\* The eight digits YYYYMMDD of a timestamp that starts with a date.
DateDigits(ts) == SubSeq(ts, 1, 4) \o SubSeq(ts, 6, 7) \o SubSeq(ts, 9, 10)

\* C6: a candidate whose timestamp starts with YYYY-MM-DD has the session key
\* YYYYMMDD; two candidates with the same leading date are one session: they have
\* the same key, the one of worse priority is not selected, and when both are
\* selected they carry distinct run indices.
C6_LeadingDateKey ==
    /\ \A j \in 1..Len(t1_sequences) :
          StartsWithDate(t1_sequences[j].timestamp) =>
              t1_sequences[j].session_date = DateDigits(t1_sequences[j].timestamp)
    /\ pc = "selected" =>
          \A a, b \in 1..Len(t1_sequences) :
              ( /\ a # b
                /\ StartsWithDate(t1_sequences[a].timestamp)
                /\ StartsWithDate(t1_sequences[b].timestamp)
                /\ DateDigits(t1_sequences[a].timestamp) = DateDigits(t1_sequences[b].timestamp) )
              => /\ t1_sequences[a].priority < t1_sequences[b].priority =>
                      \A i \in 1..Len(selected) : ~SameCandidate(selected[i], t1_sequences[b])
                 /\ \A i, k \in 1..Len(selected) :
                      ( SameCandidate(selected[i], t1_sequences[a])
                        /\ SameCandidate(selected[k], t1_sequences[b]) )
                      => /\ selected[i].run # None /\ selected[k].run # None
                         /\ selected[i].run # selected[k].run

\* Two timestamps of the same day with different times of day, both selected as runs.
C6_Witness ==
    /\ pc = "selected"
    /\ \E i, k \in 1..Len(selected) :
          /\ selected[i].timestamp # selected[k].timestamp
          /\ StartsWithDate(selected[i].timestamp)
          /\ StartsWithDate(selected[k].timestamp)
          /\ selected[i].session_date = <<"2","0","1","1","0","4","0","5">>
          /\ selected[k].session_date = <<"2","0","1","1","0","4","0","5">>
          /\ selected[i].run = 1 /\ selected[k].run = 2

-----------------------------------------------------------------------------
(* Properties of the string functions *)

\* Some exclusion pattern matches the label, letters compared without regard to case.
MatchesExclusion(label) ==
    \E k \in 1..Len(EXCLUDE_PATTERNS) : re_match_dotstar(EXCLUDE_PATTERNS[k], label, TRUE)

\* Some inclusion pattern matches the label, letters compared without regard to case.
MatchesInclusion(label) ==
    \E k \in 1..Len(T1_PATTERNS) : re_match_dotstar(T1_PATTERNS[k], label, TRUE)

\* C3: a label matching an exclusion pattern and an inclusion pattern is rejected,
\* and so is a label matching neither.
C3_ExclusionPrecedence ==
    fn = "is_t1_sequence" =>
        /\ (MatchesExclusion(arg) /\ MatchesInclusion(arg)) => ret = <<FALSE>>
        /\ (~MatchesExclusion(arg) /\ ~MatchesInclusion(arg)) => ret = <<FALSE>>

\* A label matching both lists was classified.
C3_Witness ==
    /\ fn = "is_t1_sequence"
    /\ MatchesExclusion(arg) /\ MatchesInclusion(arg)
    /\ ret = <<FALSE>>

\* The entries of the priority table, in lower case.
LowerTable == [k \in 1..Len(SEQUENCE_PRIORITY) |-> lower(SEQUENCE_PRIORITY[k])]

\* For each 0-based index, whether that table entry is a substring of the label,
\* case-insensitively.
EntriesIn(label) ==
    LET label_lower == lower(label)
    IN [idx \in 0..(Len(SEQUENCE_PRIORITY) - 1) |-> contains(label_lower, LowerTable[idx + 1])]

\* C4: get_sequence_priority returns the least 0-based index of a table entry that
\* is a case-insensitive substring of the label, and the table length when there
\* is none; so a label containing entry i ranks at most i, and a label containing
\* no entry up to i ranks above i.
C4_FirstMatchRank ==
    fn = "get_sequence_priority" =>
        LET has == EntriesIn(arg)
        IN /\ ret[1] \in 0..Len(SEQUENCE_PRIORITY)
           /\ ret[1] < Len(SEQUENCE_PRIORITY) => has[ret[1]]
           /\ \A idx \in DOMAIN has :
                 /\ has[idx] => ret[1] <= idx
                 /\ (\A e \in 0..idx : ~has[e]) => ret[1] > idx

\* A label containing two table entries was ranked by the earlier one.
C4_Witness ==
    /\ fn = "get_sequence_priority"
    /\ LET has == EntriesIn(arg)
       IN \E i, k \in DOMAIN has : i < k /\ has[i] /\ has[k] /\ ret[1] = i

\* C5: extract_session_date returns a non-empty key of exactly 8 characters for
\* every input string.
C5_KeyHasEightChars ==
    fn = "extract_session_date" => (ret[1] # <<>> /\ Len(ret[1]) = 8)

\* C7: normalize_subject_id applied to its own result returns that result.
C7_NormalizeIdempotent ==
    ret2 # <<>> => ret2 = ret

-----------------------------------------------------------------------------
(* Properties of the QC gate *)

LoopDone == qc_todo = {}

RowsOf(df) == { df.rows[i] : i \in 1..Len(df.rows) }

PassesPresent(r) ==
    \A k \in 1..Len(QC_THRESHOLDS) :
        QC_THRESHOLDS[k][1] \in combined_df.columns =>
            /\ r.qc[QC_THRESHOLDS[k][1]] # NaN
            /\ r.qc[QC_THRESHOLDS[k][1]] >= QC_THRESHOLDS[k][2]

C9_OrderIndependent ==
    LoopDone =>
        \A items \in ThresholdOrders :
            apply_filters(combined_df, items).rows = filtered_df.rows

\* Two rows, each removed by a different filter.
C9_Witness ==
    /\ LoopDone
    /\ filtered_df.rows = <<>>
    /\ \E r1, r2 \in RowsOf(combined_df) :
          \E c1, c2 \in combined_df.columns :
              /\ c1 # c2
              /\ r1.qc[c1] = 70 /\ r1.qc[c2] = 75
              /\ r2.qc[c1] = 75 /\ r2.qc[c2] = 70
              /\ c1 # "qc_general grey matter" /\ c2 # "qc_general grey matter"

-----------------------------------------------------------------------------
(* Properties of the per-dataset join *)

\* C10: the combined table has at most as many rows as the subject table.
C10_RowCountBound ==
    jpc = "done" => Len(joined_df) <= Len(subjects_df)

\* No two rows of the table share their (subject identifier, dataset label) pair.
UniqueKeys(df) ==
    \A i, j \in 1..Len(df) :
        (df[i].subject_id = df[j].subject_id /\ df[i].dataset = df[j].dataset) => i = j

\* C11: when the (subject_id, dataset) pairs of the subject table are unique,
\* the table either reconciler script emits holds each pair at most once.
C11_UniqueHarmonizedKey ==
    (jpc = "done" /\ UniqueKeys(subjects_df)) => UniqueKeys(joined_df)

\* C14: no row of the emitted table carries the dataset label UNKNOWN.
C14_NoUnknownRow ==
    /\ \A t \in 1..Len(matched_data) : \A i \in 1..Len(matched_data[t]) :
           matched_data[t][i].dataset # "UNKNOWN"
    /\ \A i \in 1..Len(joined_df) : joined_df[i].dataset # "UNKNOWN"

\* A run has emitted a table although the subject table holds an UNKNOWN row
\* whose identifier occurs, as written, in a measurement table that was loaded.
C14_Witness ==
    /\ jpc = "done" /\ Len(joined_df) > 0
    /\ \E i \in 1..Len(subjects_df) :
          /\ subjects_df[i].dataset = "UNKNOWN"
          /\ \E d \in DOMAIN volumes_dfs : \E k \in 1..Len(volumes_dfs[d].rows) :
                volumes_dfs[d].rows[k] = subjects_df[i].subject_id

-----------------------------------------------------------------------------
(* Properties of infer_dataset *)

\* The labels infer_dataset can return.
INFER_LABELS ==
    { "OASIS3", "IXI", "PPMI", "SRPBS", "ADNI", "OASIS2", "OASIS1", "UNKNOWN" }

\* The rules of infer_dataset as one flat ordered list: whether rule k applies to
\* the identifier s, and the label it gives.
RuleHolds(k, s) ==
    LET sub == Len(s) >= 4 /\ s[1] = "s" /\ s[2] = "u" /\ s[3] = "b" /\ s[4] = "-"
        has(tok) == \E i \in 1..Len(s) :
                       /\ i + Len(tok) - 1 <= Len(s)
                       /\ \A j \in 1..Len(tok) : s[i + j - 1] = tok[j]
        starts(tok) == Len(s) >= Len(tok) /\ \A j \in 1..Len(tok) : s[j] = tok[j]
    IN CASE k = 1 -> sub /\ has(TokOAS)
         [] k = 2 -> sub /\ has(TokIXI)
         [] k = 3 -> sub /\ has(TokPPMI)
         [] k = 4 -> sub /\ has(TokSRPB)
         [] k = 5 -> ~sub /\ has(TokS)
         [] k = 6 -> ~sub /\ starts(TokOAS2)
         [] k = 7 -> ~sub /\ starts(TokOAS1)

RuleLabel == << "OASIS3", "IXI", "PPMI", "SRPBS", "ADNI", "OASIS2", "OASIS1" >>

\* C13: infer_dataset returns, for every identifier, exactly one label of the
\* fixed set: the label of the first rule (in the fixed order) that applies, and
\* UNKNOWN when no rule applies.
C13_InferTotalOrdered ==
    fn = "infer_dataset" =>
        /\ Len(ret) = 1
        /\ ret[1] \in INFER_LABELS
        /\ LET matching == { k \in 1..Len(RuleLabel) : RuleHolds(k, arg) }
           IN IF matching = {}
              THEN ret[1] = "UNKNOWN"
              ELSE ret[1] = RuleLabel[CHOOSE k \in matching : \A m \in matching : k <= m]

\* An identifier to which two rules apply has been classified by the earlier
\* one, and an identifier to which none applies has been classified UNKNOWN.
C13_Witness ==
    /\ fn = "infer_dataset"
    /\ RuleHolds(1, arg) /\ RuleHolds(2, arg)
    /\ ret = << "OASIS3" >>

-----------------------------------------------------------------------------
(* Properties of a whole run of combine_volumes_with_subjects.py *)

\* The number of rows of the table that carry the dataset label.
CountLabelled(df, dataset) ==
    Cardinality({ i \in 1..Len(df) : df[i].dataset = dataset })

\* The match count the loop printed for the dataset (line 126), 0 when it
\* printed none.
MatchCount(dataset) ==
    LET lines == { i \in 1..Len(report) :
                     report[i].dataset = dataset /\ report[i].kind = "matched" }
    IN IF lines = {} THEN 0 ELSE report[CHOOSE i \in lines : TRUE].n

AllDatasets == { VolumeDatasets[k] : k \in 1..Len(VolumeDatasets) }

\* The row of the unioned table passes every configured threshold whose column
\* the unioned table has.
PassesGate(row, columns) ==
    \A k \in 1..Len(QC_THRESHOLDS) :
        QC_THRESHOLDS[k][1] \in columns =>
            (row.qc[QC_THRESHOLDS[k][1]] # NaN /\ row.qc[QC_THRESHOLDS[k][1]] >= QC_THRESHOLDS[k][2])

\* C12 as stated: in the table written, the number of rows labelled D equals the
\* match count printed for D, for every dataset D whose volumes file is present,
\* and is zero for a dataset whose volumes file is absent.
C12_FinalCountIsMatchCount ==
    jpc = "saved" =>
        \A d \in AllDatasets :
            IF d \in DOMAIN volumes_dfs
            THEN CountLabelled(output_file[1], d) = MatchCount(d)
            ELSE CountLabelled(output_file[1], d) = 0

\* C12 amended: the unioned table (before the QC gate) holds, for every dataset
\* D whose volumes file is present, as many rows labelled D as the match count
\* printed for D; the table written holds those of them that pass the QC gate,
\* so at most that many; a dataset whose volumes file is absent has no row.
C12_UnionCountIsMatchCount ==
    /\ jpc \in { "done", "qc", "saved" } =>
          \A d \in AllDatasets :
              CountLabelled(joined_df, d) = (IF d \in DOMAIN volumes_dfs THEN MatchCount(d) ELSE 0)
    /\ jpc \in { "qc", "saved" } =>
          /\ Len(combined_df.rows) = Len(joined_df)
          /\ \A d \in AllDatasets : CountLabelled(combined_df.rows, d) = CountLabelled(joined_df, d)
    /\ jpc = "saved" =>
          \A d \in AllDatasets :
              /\ CountLabelled(output_file[1], d) =
                     Cardinality({ i \in 1..Len(combined_df.rows) :
                                     /\ combined_df.rows[i].dataset = d
                                     /\ PassesGate(combined_df.rows[i], combined_df.columns) })
              /\ CountLabelled(output_file[1], d) <= MatchCount(d)

\* A table has been written in which one dataset has fewer rows than its match
\* count and another has exactly its match count.
C12_Witness ==
    /\ jpc = "saved"
    /\ \E d \in DOMAIN volumes_dfs : CountLabelled(output_file[1], d) < MatchCount(d)
    /\ \E d \in DOMAIN volumes_dfs :
          MatchCount(d) > 0 /\ CountLabelled(output_file[1], d) = MatchCount(d)

\* C17: (a) without a 'subject_id' or 'Subject' column the run stops at the
\* raise of line 62, (b) with no joined table it stops at the exit(1) of line
\* 131; a run that stopped in either way has written no table and takes no
\* further step, and a run that went on had an identifier column and a joined
\* table.
C17_ConfigErrorsAbort ==
    /\ [](/\ (("subject_id" \notin selected_cols /\ "Subject" \notin selected_cols)
                 => (jpc \in { "load", "raise" } /\ output_file = <<>>))
           /\ ((jpc = "raise")
                 => ("subject_id" \notin selected_cols /\ "Subject" \notin selected_cols))
           /\ ((jpc = "exit") => (matched_data = <<>> /\ todo = <<>> /\ output_file = <<>>))
           /\ ((jpc \in { "done", "qc", "saved" }) => (matched_data # <<>>))
           /\ ((output_file # <<>>) => (jpc = "saved")))
    /\ [][jpc \notin { "raise", "exit" }]_vars

\* The run stopped at exit(1) although a volumes file was loaded and the
\* subject table has rows: no dataset produced a joined table.
C17_Witness ==
    /\ jpc = "exit"
    /\ DOMAIN volumes_dfs # {}
    /\ Len(subjects_df) > 0

\* The measurement table of the dataset has no column whose lower-cased name
\* contains 'subject'.
Faulty(d) ==
    /\ d \in DOMAIN volumes_dfs
    /\ ~contains(lower(volumes_dfs[d].subject_col), <<"s","u","b","j","e","c","t">>)

\* The unioned table of the run in which the faulty measurement tables are
\* not there at all.
RECURSIVE UnionWithoutFaulty(_)
UnionWithoutFaulty(keys) ==
    IF keys = <<>> THEN <<>>
    ELSE IF Head(keys) \in DOMAIN volumes_dfs /\ ~Faulty(Head(keys))
         THEN combine_merge(rows_of_dataset(subjects_df, Head(keys)), volumes_dfs[Head(keys)])
              \o UnionWithoutFaulty(Tail(keys))
         ELSE UnionWithoutFaulty(Tail(keys))

\* Some dataset without a faulty table has a subject: the run without the
\* faulty tables builds a joined table.
JoinsWithoutFaulty ==
    \E d \in DOMAIN volumes_dfs :
        ~Faulty(d) /\ \E i \in 1..Len(subjects_df) : subjects_df[i].dataset = d

\* C18: a dataset whose measurement table has no 'subject' column is reported
\* (as lacking the column when it has subjects, as having no subject otherwise)
\* and contributes no row; the run ends as the run without that table would:
\* the same unioned table, or exit(1) when no other dataset gives a joined table.
C18_SchemaMismatchIsLocal ==
    (script = "combine" /\ jpc \in { "done", "qc", "saved", "exit" }) =>
        /\ \A d \in DOMAIN volumes_dfs : Faulty(d) =>
              /\ CountLabelled(joined_df, d) = 0
              /\ \E i \in 1..Len(report) :
                    /\ report[i].dataset = d
                    /\ report[i].kind =
                          IF \E r \in 1..Len(subjects_df) : subjects_df[r].dataset = d
                          THEN "no_subject_column" ELSE "no_subjects"
        /\ (jpc = "exit") = ~JoinsWithoutFaulty
        /\ jpc # "exit" => joined_df = UnionWithoutFaulty(VolumeDatasets)

\* A faulty table of a dataset that has subjects, and rows of another dataset
\* in the unioned table.
C18_Witness ==
    /\ script = "combine" /\ jpc = "done"
    /\ \E d \in DOMAIN volumes_dfs :
          /\ Faulty(d)
          /\ \E r \in 1..Len(subjects_df) : subjects_df[r].dataset = d
    /\ Len(joined_df) > 0

-----------------------------------------------------------------------------
(* Claims about the loop of main of convert_ppmi_dicom_to_nifti.py *)

\* The timestamp directories of the subject's tree that hold no *.dcm file.
EmptyDirs ==
    { k \in 1..Len(subject_dirs) : subject_dirs[k].n_dicom_files = 0 }

\* The entry of selected comes from the k-th timestamp directory.
FromDir(seq, k) ==
    /\ seq.sequence_name = subject_dirs[k].seq_name
    /\ seq.timestamp = subject_dirs[k].timestamp_name

\* C15: every entry find_t1_sequences returns, every entry select_best_sequences
\* returns in main and every entry handed to convert_to_nifti has num_files >= 1,
\* and none of them comes from a timestamp directory without *.dcm files.
C15_NoZeroFileCandidate ==
    /\ \A i \in 1..Len(t1_sequences) :
          /\ t1_sequences[i].num_files >= 1
          /\ \A k \in EmptyDirs : ~FromDir(t1_sequences[i], k)
    /\ \A i \in 1..Len(selected) :
          /\ selected[i].num_files >= 1
          /\ \A k \in EmptyDirs : ~FromDir(selected[i], k)
    /\ \A i \in 1..Len(converted) :
          /\ converted[i].sequence_info.num_files >= 1
          /\ \A k \in EmptyDirs : ~FromDir(converted[i].sequence_info, k)
          /\ \E k \in 1..Len(subject_dirs) :
                /\ FromDir(converted[i].sequence_info, k)
                /\ subject_dirs[k].n_dicom_files = converted[i].sequence_info.num_files

\* A subject with a T1 timestamp directory without files next to one with files,
\* the latter converted.
C15_Witness ==
    /\ mpc = "loop"
    /\ converted # <<>>
    /\ \E k \in EmptyDirs : SeriesIsT1[subject_dirs[k].seq_name]

TwoDigits(run) == << DigitChars[(run \div 10) + 1], DigitChars[(run % 10) + 1] >>

\* The stem of the claim for a subject, a session key and a run.
Stem(subject, session_key, run) ==
    <<"s","u","b","-">> \o str_int(subject) \o <<"_","s","e","s","-">> \o session_key
    \o (IF run = None THEN <<>> ELSE <<"_","r","u","n","-">> \o TwoDigits(run))
    \o <<"_","T","1","w">>

\* C19: every call of convert_to_nifti hands dcm2niix the stem
\* sub-{subject_id}_ses-{session_key}_T1w when run is None and
\* sub-{subject_id}_ses-{session_key}_run-{run:02d}_T1w when run is a positive
\* integer, tests the existence of {stem}.nii.gz, and returns True exactly when
\* that file is there.
C19_OutputNaming ==
    \A i \in 1..Len(converted) :
        LET seq == converted[i].sequence_info
        IN /\ seq.run = None \/ seq.run >= 1
           /\ converted[i].filename = Stem(main_subject_id, seq.session_date, seq.run)
           /\ converted[i].nifti_file
                 = Stem(main_subject_id, seq.session_date, seq.run)
                   \o <<".","n","i","i",".","g","z">>

\* The second of two sequences of one session has been handed over as run 2 of
\* subject 3001.
C19_Witness ==
    /\ Len(converted) = 2
    /\ converted[2].sequence_info.run = 2
    /\ converted[2].filename =
          <<"s","u","b","-","3","0","0","1","_","s","e","s","-",
            "2","0","1","1","0","4","0","5","_","r","u","n","-","0","2",
            "_","T","1","w">>

\* A sequence that is alone in its session has been handed over without a run
\* number.
C19_WitnessNoRun ==
    \E i \in 1..Len(converted) :
        /\ converted[i].sequence_info.run = None
        /\ converted[i].filename =
              <<"s","u","b","-","3","0","0","1","_","s","e","s","-",
                "2","0","2","1","0","5","1","7","_","T","1","w">>

-----------------------------------------------------------------------------
(* Claims about organize_ct_synthseg.py *)

\* The source files of a subject that are not there.
MissingKinds(subject) ==
    { kind \in { "volumes", "qc", "segmentation" } :
        (IF kind = "segmentation" THEN subject \o SegSuffix ELSE subject \o CsvSuffix)
            \notin source_fs[kind] }

\* The subjects main lists, and those the loop has not visited yet.
ListedSubjects == { extract_subject_id(n) : n \in glob_csv(source_fs.volumes) }
PendingSubjects == { subject_ids[i] : i \in 1..Len(subject_ids) }

\* The outcomes recorded so far, in a dry run and in a real run alike: a
\* failure that names missing files names exactly the source files of the
\* subject that are not there; no subject with a missing source file is among
\* the successes; every listed subject with a missing source file that the loop
\* has visited has such a failure.
MissingCasesRecorded ==
    /\ \A i \in 1..Len(failures) :
          failures[i].kind = "FileNotFoundError" =>
             /\ MissingKinds(failures[i].subject_id) # {}
             /\ { failures[i].missing[k] : k \in 1..Len(failures[i].missing) }
                   = MissingKinds(failures[i].subject_id)
    /\ \A i \in 1..Len(successes) : MissingKinds(successes[i]) = {}
    /\ (opc \in { "loop", "returned" }) =>
          \A subject \in ListedSubjects \ PendingSubjects :
             MissingKinds(subject) # {} =>
                \E i \in 1..Len(failures) :
                   /\ failures[i].subject_id = subject
                   /\ failures[i].kind = "FileNotFoundError"

\* In a dry run the missing source files are the only failures.
DryRunOutcomes ==
    dry_run =>
       /\ \A i \in 1..Len(failures) : failures[i].kind = "FileNotFoundError"
       /\ opc # "raise"
       /\ (opc = "returned" /\ source_fs.dirs = { "volumes", "qc", "segmentation" }) =>
             /\ \A subject \in ListedSubjects :
                   MissingKinds(subject) = {} =>
                      \E i \in 1..Len(successes) : successes[i] = subject
             /\ exit_code = (IF \A subject \in ListedSubjects : MissingKinds(subject) = {}
                             THEN 0 ELSE 1)

\* C20: no step of a dry run changes TARGET_DIR (no directory made, no file
\* copied), and the outcome recorded for a subject with a missing source file is
\* the same failure, naming the missing files, in a dry run and in a real run.
C20_DryRunLeavesTargetUnchanged ==
    /\ [](MissingCasesRecorded /\ DryRunOutcomes)
    /\ [][dry_run => target_fs' = target_fs]_vars

\* A dry run is over: one subject succeeded, another failed for a missing file,
\* and TARGET_DIR is still not there.
C20_Witness ==
    /\ dry_run /\ opc = "returned"
    /\ successes # <<>> /\ failures # <<>>
    /\ ~target_fs.exists

\* A real run with the same kind of outcome has made TARGET_DIR and copied.
C20_WitnessRealRun ==
    /\ ~dry_run /\ opc = "returned"
    /\ successes # <<>>
    /\ \E i \in 1..Len(failures) : failures[i].kind = "FileNotFoundError"
    /\ target_fs.files # {}

-----------------------------------------------------------------------------
(* Claims about the counts the QC gate prints *)

RECURSIVE SumRemoved(_)
SumRemoved(printed) ==
    IF printed = <<>> THEN 0
    ELSE printed[1].n_filtered + SumRemoved(Tail(printed))

\* C21: the count a filter prints is the number of rows of the table before the
\* filter minus the number after it, rows with a missing value included, and
\* when the loop is over the counts printed add up to n_before - n_after.
C21_PrintedCountIsRemoved ==
    /\ [](LoopDone =>
             SumRemoved(removed_counts)
                = Len(combined_df.rows) - Len(filtered_df.rows))
    /\ [][removed_counts' # removed_counts =>
             removed_counts'[Len(removed_counts')].n_filtered
                = Len(filtered_df.rows) - Len(filtered_df'.rows)]_vars

-----------------------------------------------------------------------------
(* Claims about the identifiers the join of combine_volumes_with_subjects.py *)
(* compares                                                                  *)

\* The identifier without a leading 'sub-'.
WithoutSubPrefix(id) ==
    IF Len(id) >= 4 /\ SubSeq(id, 1, 4) = <<"s","u","b","-">>
    THEN SubSeq(id, 5, Len(id)) ELSE id

\* C22: when combine_volumes_with_subjects.py has built its combined table, a
\* subject row and a row of the measurement table of its dataset whose
\* identifiers are equal up to a leading 'sub-' are joined in it.
C22_CombineJoinsNormalized ==
    (script = "combine" /\ jpc = "done") =>
        \A i \in 1..Len(subjects_df) :
            LET d == subjects_df[i].dataset
            IN (d \in DOMAIN volumes_dfs /\ volumes_dfs[d].subject_col = SubjectColumn) =>
                  \A k \in 1..Len(volumes_dfs[d].rows) :
                      WithoutSubPrefix(subjects_df[i].subject_id)
                            = WithoutSubPrefix(volumes_dfs[d].rows[k]) =>
                         \E j \in 1..Len(joined_df) :
                            /\ joined_df[j].subject_id = subjects_df[i].subject_id
                            /\ joined_df[j].dataset = d
                            /\ joined_df[j].vol_row = k

-----------------------------------------------------------------------------
(* Claims about the 'sub-' branch of infer_dataset and the shadowed entries  *)
(* of SEQUENCE_PRIORITY                                                      *)

\* C29: an identifier that starts with 'sub-' is classified OASIS3, IXI, PPMI,
\* SRPBS or UNKNOWN, never ADNI, OASIS2 or OASIS1, also when it holds '_S_',
\* 'OAS2_' or 'OAS1_': 'sub-' followed by 'OAS2_' or 'OAS1_' gives OASIS3, and
\* 'sub-' followed by '_S_' or by digits, with none of the tokens of the branch,
\* gives UNKNOWN.
C29_SubPrefixPreempts ==
    (fn = "infer_dataset" /\ Len(arg) >= 4 /\ SubSeq(arg, 1, 4) = <<"s","u","b","-">>) =>
        /\ ret[1] \in { "OASIS3", "IXI", "PPMI", "SRPBS", "UNKNOWN" }
        /\ (\E t \in { TokOAS2, TokOAS1 } :
               Len(arg) >= 4 + Len(t) /\ SubSeq(arg, 5, 4 + Len(t)) = t)
              => ret[1] = "OASIS3"
        /\ arg \in { <<"s","u","b","-","0","1","_","S","_">>,
                     <<"s","u","b","-","0","1","_","S","_","0","1">>,
                     <<"s","u","b","-","_","S","_","0","1">>,
                     <<"s","u","b","-","0","1">>,
                     <<"s","u","b","-">> }
              => ret[1] = "UNKNOWN"

\* 'sub-01_S_', which holds '_S_', has been classified UNKNOWN.
C29_Witness ==
    /\ fn = "infer_dataset"
    /\ arg = <<"s","u","b","-","0","1","_","S","_">>
    /\ ret = << "UNKNOWN" >>

\* The indices of SEQUENCE_PRIORITY whose entry holds the entry 'MPRAGE'.
ShadowedIndices == { 4, 5, 6 }

\* C30: get_sequence_priority never returns 4, 5 or 6, because each of the
\* entries at these indices holds the entry at index 3; the entry at every other
\* index, taken as a label, gets that index, and the empty label gets the
\* sentinel, the length of the table.
C30_ShadowedEntries ==
    /\ fn = "get_sequence_priority" => ret[1] \notin ShadowedIndices
    /\ (fn = "get_sequence_priority"
        /\ \E idx \in 0..(Len(SEQUENCE_PRIORITY) - 1) : arg = SEQUENCE_PRIORITY[idx + 1]) =>
          LET idx == CHOOSE i \in 0..(Len(SEQUENCE_PRIORITY) - 1) :
                        arg = SEQUENCE_PRIORITY[i + 1]
          IN IF idx \in ShadowedIndices
             THEN /\ ret[1] = 3
                  /\ \E i \in 1..Len(arg) :
                        SubSeq(arg, i, i + Len(SEQUENCE_PRIORITY[4]) - 1) = SEQUENCE_PRIORITY[4]
             ELSE ret[1] = idx
    /\ (fn = "get_sequence_priority" /\ arg = <<>>) => ret[1] = 10
    /\ Len(SEQUENCE_PRIORITY) = 10

\* The label 'SAG_3D_MPRAGE', the entry at index 4, has been ranked 3.
C30_Witness ==
    /\ fn = "get_sequence_priority"
    /\ arg = <<"S","A","G","_","3","D","_","M","P","R","A","G","E">>
    /\ ret = << 3 >>

\* The label 'SAG_3D_T1_FSPGR' has been ranked 8 and not 9.
C30_WitnessAttained ==
    /\ fn = "get_sequence_priority"
    /\ arg = <<"S","A","G","_","3","D","_","T","1","_","F","S","P","G","R">>
    /\ ret = << 8 >>

-----------------------------------------------------------------------------
(* Claims about the precheck of copy_subject_files *)

\* The three files of the subject are in its target directory.
TargetComplete(fs, subject) ==
    /\ fs.exists
    /\ subject \in fs.dirs
    /\ \A name \in { "volumes.csv", "qc_scores.csv", "segmentation.nii.gz" } :
          << subject, name >> \in fs.files

\* One call of copy_subject_files for the first subject still to visit.
CopyStep == opc = "loop" /\ subject_ids # <<>> /\ subject_ids' = Tail(subject_ids)

\* C27: a call of copy_subject_files for a subject with a missing source file
\* returns False with the FileNotFoundError message naming the missing files and
\* leaves the target as it was (no directory made, no file copied); a call for a
\* subject whose three source files exist returns True only with the three
\* files in the subject's target directory (in a real run), and False only for
\* an error raised while copying.
C27_AllOrNothing ==
    /\ [](\A i \in 1..Len(successes) :
             /\ MissingKinds(successes[i]) = {}
             /\ ~dry_run => TargetComplete(target_fs, successes[i]))
    /\ [][CopyStep =>
            LET subject == Head(subject_ids)
            IN IF MissingKinds(subject) # {}
               THEN /\ target_fs' = target_fs
                    /\ successes' = successes
                    /\ Len(failures') = Len(failures) + 1
                    /\ failures'[Len(failures')].subject_id = subject
                    /\ failures'[Len(failures')].kind = "FileNotFoundError"
                    /\ { failures'[Len(failures')].missing[k]
                           : k \in 1..Len(failures'[Len(failures')].missing) }
                          = MissingKinds(subject)
               ELSE \/ /\ successes' = Append(successes, subject)
                       /\ failures' = failures
                       /\ ~dry_run => TargetComplete(target_fs', subject)
                    \/ /\ successes' = successes
                       /\ ~dry_run
                       /\ Len(failures') = Len(failures) + 1
                       /\ failures'[Len(failures')].kind = "Exception"]_vars

\* A real run is over: a subject without its QC file failed and has no target
\* directory, another subject was copied with its three files.
C27_Witness ==
    /\ ~dry_run /\ opc = "returned"
    /\ \E i \in 1..Len(failures) :
          /\ failures[i].kind = "FileNotFoundError"
          /\ failures[i].missing = << "qc" >>
          /\ failures[i].subject_id \notin target_fs.dirs
    /\ \E i \in 1..Len(successes) : TargetComplete(target_fs, successes[i])

-----------------------------------------------------------------------------
(* Claims about the datasets combine_volumes_with_subjects.py names *)

\* The dataset labels a run has printed so far: in a 'File not found' line, in
\* the dataset distribution, or in a line of the per-dataset loop.
NamedDatasets ==
    files_not_found(VolumeDatasets, volumes_dfs)
    \cup DOMAIN dataset_distribution
    \cup { report[i].dataset : i \in 1..Len(report) }

\* C26: when the loop of combine_volumes_with_subjects.py is over, every dataset
\* label of the subject table for which no measurement table is loaded has been
\* named in a printed line.
C26_MissingDatasetsNamed ==
    (script = "combine" /\ jpc \in { "done", "exit", "qc", "saved" }) =>
        \A i \in 1..Len(subjects_df) :
            subjects_df[i].dataset \notin DOMAIN volumes_dfs =>
                subjects_df[i].dataset \in NamedDatasets

-----------------------------------------------------------------------------
(* Claims about a conversion that writes nothing *)

\* C25: whatever OUTPUT_ROOT held before the run, a call of convert_to_nifti in
\* which dcm2niix wrote no file has returned False, and main has counted it as
\* failed.
C25_NoOutputIsFailure ==
    /\ \A i \in 1..Len(converted) : ~converted[i].produced => ~converted[i].success
    /\ stats # <<>> =>
          stats.failed_conversions
             >= Cardinality({ i \in 1..Len(converted) : ~converted[i].produced })

-----------------------------------------------------------------------------
(* Claims about the output paths of one subject *)

\* The path main and convert_to_nifti give the i-th selected sequence of a
\* subject: the output directory and the file stem.
OutputPath(subject, i) ==
    << output_dir_of(subject, selected[i].session_date),
       nifti_filename(subject, selected[i].session_date, selected[i].run) >>

\* C28: the sequences select_best_sequences returns for one subject are written
\* to pairwise distinct (output directory, file stem) pairs, so that no selected
\* sequence overwrites the output of another.
C28_NoOutputCollision ==
    pc = "selected" =>
        \A subject \in { Patnos(MaxPatnos)[k] : k \in 1..MaxPatnos } :
            \A i, j \in 1..Len(selected) :
                i # j => OutputPath(subject, i) # OutputPath(subject, j)

\* Two sequences of one session are kept as runs 1 and 2, next to a sequence of
\* another session.
C28_Witness ==
    /\ pc = "selected"
    /\ \E i, j, k \in 1..Len(selected) :
          /\ selected[i].session_date = selected[j].session_date
          /\ selected[i].run = 1 /\ selected[j].run = 2
          /\ selected[k].session_date # selected[i].session_date

-----------------------------------------------------------------------------
(* Claims about the file container of a timestamp directory *)

\* The series directory of the visited timestamp directory passed is_t1_sequence.
VisitedT1 ==
    /\ timestamp_dir # <<>>
    /\ timestamp_dir.visited
    /\ SeriesIsT1[timestamp_dir.seq_name]

\* The container find_t1_sequences chose for the visited timestamp directory.
Container == dicom_dir_of(timestamp_dir.timestamp_name, timestamp_dir.children)

\* A name of the form <stem>.dcm.
HasDcmExtension(n) ==
    Len(n) >= 4 /\ n = SubSeq(n, 1, Len(n) - 4) \o <<".","d","c","m">>

\* The image files lying directly in the visited timestamp directory.
FlatImageFiles ==
    { c \in timestamp_dir.children : ~c.is_dir /\ HasDcmExtension(c.name) }

\* The layout is flat: files, and no sub-directory, directly in the timestamp
\* directory.
FlatLayout ==
    /\ timestamp_dir.children # {}
    /\ \A c \in timestamp_dir.children : ~c.is_dir

\* C23: the container of a timestamp directory is its single child directory
\* when it has exactly one child and that child is a directory, and the
\* timestamp directory itself when the layout is flat; a flat timestamp
\* directory holding one or more image files yields a candidate whose num_files
\* is the number of those files.
C23_ContainerRule ==
    VisitedT1 =>
        /\ \A c \in timestamp_dir.children :
              (timestamp_dir.children = { c } /\ c.is_dir) => Container = c
        /\ FlatLayout =>
              Container = as_entry(timestamp_dir.timestamp_name, timestamp_dir.children)
        /\ (FlatLayout /\ FlatImageFiles # {}) =>
              /\ Len(t1_sequences) = 1
              /\ t1_sequences[1].num_files = Cardinality(FlatImageFiles)

\* The files the container holds: the files of the child directory, or the
\* children of the timestamp directory that are files.
ContainerFiles ==
    IF Container \in timestamp_dir.children
    THEN Container.names
    ELSE { c.name : c \in { d \in timestamp_dir.children : ~d.is_dir } }

\* C24 as stated: a container directory holding at least one file, whatever
\* the names of the files, yields a candidate whose num_files is the number of
\* files present.
C24_AnyFileCounted ==
    (VisitedT1 /\ Container.is_dir /\ ContainerFiles # {}) =>
        /\ Len(t1_sequences) = 1
        /\ t1_sequences[1].num_files = Cardinality(ContainerFiles)

\* C24: find_t1_sequences counts the entries of the container whose name ends
\* with .dcm: there is a candidate exactly when the container is a directory
\* with such an entry, and its num_files is the number of those entries.
C24_DcmFilesCounted ==
    VisitedT1 =>
        LET matching == IF Container.is_dir
                        THEN { n \in Container.names : HasDcmExtension(n) }
                        ELSE {}
        IN IF matching = {}
           THEN t1_sequences = <<>>
           ELSE /\ Len(t1_sequences) = 1
                /\ t1_sequences[1].num_files = Cardinality(matching)

\* A container directory with a .dcm file and a file of another name: the
\* candidate counts one file of two.
C24_Witness ==
    /\ VisitedT1 /\ Container.is_dir
    /\ Cardinality(ContainerFiles) = 2
    /\ Len(t1_sequences) = 1 /\ t1_sequences[1].num_files = 1

====
